---- MODULE Spec2Model ----
(***************************************************************************)
(* Hybrid retrieval and keyword windowing of the road-design search        *)
(* engine: rag/vector_database.py (VectorDatabase), the extraction and     *)
(* scoring helpers and the endpoints of fastapi_server.py, and the keyword *)
(* positions of pdf_image_renderer.py.                                     *)
(*                                                                         *)
(* Representation.                                                         *)
(*  - A Python str is a sequence of characters; a character is a token     *)
(*    ("a", "A", " ", ".", "da" for the Hangul syllable DA, ...).          *)
(*  - A float is an integer number of 1/One units.  The pools hold only    *)
(*    values for which every product and quotient the code forms is a      *)
(*    whole number of units, so the arithmetic below is exact.             *)
(*  - An embedding is a tuple of integers in tenths.                       *)
(***************************************************************************)
EXTENDS Integers, Sequences, FiniteSets, TLC

VARIABLES
    index_type,      \* VectorDatabase.index_type
    index,           \* VectorDatabase.index: [metric, vectors]
    documents,       \* VectorDatabase.documents
    metadatas,       \* VectorDatabase.metadatas
    search_stats,    \* VectorDatabase.search_stats
    op,              \* the method that ran last
    args,            \* its arguments
    raised,          \* whether it raised
    vector_results,  \* what search returned (inside hybrid_search: its local)
    keyword_results, \* what keyword_search returned (inside hybrid_search: its local)
    final_results,   \* what hybrid_search returned
    earlier_results, \* what the same keyword_search call returned the time before
    request,         \* text, keywords and radius of an extraction request
    ex_op,           \* the extraction helper that ran last
    extracted_text,  \* what it returned
    coverage_score,  \* what calculate_keyword_score returned for it (tenths of a percent)
    scan,            \* extract_text_by_characters step by step: its position and locals
    vector_db,       \* fastapi_server.py: the global name vector_db
    embedding_engine, \* the global name embedding_engine
    pdf_renderer,    \* the global pdf_renderer
    response,        \* the endpoint that answered last and its HTTP status
    pdf_request,     \* the highlight or render request: keyword(s), file, page
    all_instances,   \* smart_keyword_search: the rectangles in arrival order
    unique_instances, \* smart_keyword_search: what it returned
    text_positions,  \* find_text_positions: what it returned
    search_request,  \* POST /api/search: the SearchRequest
    formatted_results, \* POST /api/search: the results of the response
    storage_dir,     \* VectorDatabase.storage_dir: the index file and the data file
    file_result      \* what save_database or load_database returned

vars == <<index_type, index, documents, metadatas, search_stats,
          op, args, raised, vector_results, keyword_results, final_results,
          earlier_results, request, ex_op, extracted_text, coverage_score, scan,
          vector_db, embedding_engine, pdf_renderer, response, pdf_request,
          all_instances, unique_instances, text_positions,
          search_request, formatted_results, storage_dir, file_result>>

callVars == <<op, args, raised, vector_results, keyword_results, final_results,
              earlier_results>>

extractVars == <<request, ex_op, extracted_text, coverage_score, scan>>

storeVars == <<index_type, index, documents, metadatas, search_stats>>

fileVars == <<storage_dir, file_result>>

serverVars == <<vector_db, embedding_engine, pdf_renderer, response, pdf_request,
                all_instances, unique_instances, text_positions,
                search_request, formatted_results>>

----------------------------------------------------------------------------
(* Bounds of the model *)

MaxDocs == 2        \* passages in the store
MaxBatch == 1       \* rows of one add_documents call
MaxK == 2           \* requested result count
MaxSearches == 1    \* cap of the search counter

----------------------------------------------------------------------------
(* Numbers *)

\* 1.0 in units: similarities are hundredths, weights tenths, match scores
\* m/n with n the length of a keyword list of the pool (1 or 2).
One == 1000 * 2

Mul(a, b) == (a * b) \div One
Div(m, n) == (m * One) \div n
Min(a, b) == IF a < b THEN a ELSE b
Max(a, b) == IF a > b THEN a ELSE b

----------------------------------------------------------------------------
(* Strings *)

\* str.lower(), character by character
LowerChar(c) ==
    CASE c = "A" -> "a"
      [] c = "B" -> "b"
      [] c = "C" -> "c"
      [] OTHER -> c

lower(s) == [i \in 1..Len(s) |-> LowerChar(s[i])]

\* needle in hay
Contains(hay, needle) ==
    \E p \in 0..(Len(hay) - Len(needle)) :
        \A j \in 1..Len(needle) : hay[p + j] = needle[j]

\* s[:n]
Prefix(s, n) == SubSeq(s, 1, Min(n, Len(s)))

\* sequences over S of length lo..hi
SeqsOf(S, lo, hi) == UNION {[1..n -> S] : n \in lo..hi}

Range(s) == {s[i] : i \in 1..Len(s)}

----------------------------------------------------------------------------
(* Input pools *)

IndexTypes == {"cosine", "l2", "ip"}
DocTexts == {<<"a">>, <<"A", "b">>, <<"c">>}
EmbPool == {<<10, 0>>, <<-20, 0>>}
QueryPool == {<<10, 0>>, <<3, 4>>, <<10>>}
MetaPool == {[category |-> "manual"]}
\* five keywords, and a corpus of which more passages match them than
\* keyword_search returns by default: three passages hold one of the keywords,
\* two each hold two, three, four and five of them
LargeKeywords == <<<<"p">>, <<"q">>, <<"r">>, <<"s">>, <<"t">>>>
LargeDocuments ==
    <<<<"p">>, <<"q">>, <<"r">>,
      <<"p", "q">>, <<"r", "s">>,
      <<"p", "q", "r">>, <<"q", "r", "s">>,
      <<"p", "q", "r", "s">>, <<"q", "r", "s", "t">>,
      <<"p", "q", "r", "s", "t">>, <<"t", "s", "r", "q", "p">>>>
LargeEmbeddings ==
    <<<<10, 0>>, <<20, 0>>, <<-10, 0>>, <<-20, 0>>, <<-30, 0>>, <<-40, 0>>,
      <<-50, 0>>, <<-60, 0>>, <<-70, 0>>, <<-80, 0>>, <<-90, 0>>>>
LargeMetadatas == [i \in 1..Len(LargeDocuments) |-> [category |-> "manual"]]

KeywordLists ==
    {<<>>, <<<<"a">>>>, <<<<"a">>, <<"B">>>>, <<<<"B">>, <<"c">>>>, LargeKeywords}
Weights == {0, 7, 10}          \* vector_weight in tenths
MinSimilarities == {0}

----------------------------------------------------------------------------
(* VectorDatabase *)

\* VectorDatabase.dimension, the width of the index
dimension == 2

create_index(itype) ==
    IF itype = "cosine" THEN [metric |-> "IP", vectors |-> <<>>]
    ELSE IF itype = "l2" THEN [metric |-> "L2", vectors |-> <<>>]
    ELSE [metric |-> "IP", vectors |-> <<>>]

ntotal(ix) == Len(ix.vectors)

\* np.linalg.norm, in tenths
Norm(v) ==
    LET sq == IF Len(v) = 1 THEN v[1] * v[1] ELSE v[1] * v[1] + v[2] * v[2]
    IN  CHOOSE n \in 0..sq : n * n = sq

\* v / norm(v)
Normalize(v) == [i \in 1..Len(v) |-> (v[i] * 10) \div Norm(v)]

\* IndexFlatIP / IndexFlatL2 score of a stored vector, in units
InnerProduct(q, v) == (q[1] * v[1] + q[2] * v[2]) * (One \div 100)
SquaredL2(q, v) ==
    ((q[1] - v[1]) * (q[1] - v[1]) + (q[2] - v[2]) * (q[2] - v[2])) * (One \div 100)

IndexScore(ix, q, i) ==
    IF ix.metric = "IP" THEN InnerProduct(q, ix.vectors[i + 1])
    ELSE SquaredL2(q, ix.vectors[i + 1])

\* a ranks before b: larger inner product, smaller distance
Better(ix, a, b) == IF ix.metric = "IP" THEN a > b ELSE a < b

\* the rows of the set that no other row of it ranks before
BestRows(ix, q, rows) ==
    {i \in rows : \A o \in rows :
        ~Better(ix, IndexScore(ix, q, o), IndexScore(ix, q, i))}

\* index.search(q, n): the n best rows, best first; rows of equal score come
\* in an order the library does not fix.
RECURSIVE IndexSearchFrom(_, _, _, _)
IndexSearchFrom(ix, q, n, rows) ==
    IF n = 0 \/ rows = {} THEN {<<>>}
    ELSE UNION {{<<b>> \o s : s \in IndexSearchFrom(ix, q, n - 1, rows \ {b})} :
                b \in BestRows(ix, q, rows)}

IndexSearch(ix, q, n) == IndexSearchFrom(ix, q, n, 0..(ntotal(ix) - 1))

VectorResult(ix, q, docs, metas, i) ==
    [similarity |-> IndexScore(ix, q, i),
     document |-> docs[i + 1],
     metadata |-> metas[i + 1],
     vector_id |-> i]

\* index.search(query_vector, n) raises: the query is not as wide as the index
IndexSearchRaises(ix, query_embedding) ==
    ntotal(ix) > 0 /\ Len(query_embedding) # dimension

\* search(): the lists it can return; an exception inside is answered by []
SearchOutcomes(itype, ix, docs, metas, query_embedding, k, min_similarity) ==
    IF ntotal(ix) = 0 THEN {<<>>}
    ELSE IF IndexSearchRaises(ix, query_embedding) THEN {<<>>}
    ELSE
      LET q == IF itype = "cosine" THEN Normalize(query_embedding) ELSE query_embedding
          keep(i) == IndexScore(ix, q, i) >= min_similarity /\ i < Len(metas)
      IN  { LET kept == SelectSeq(s, keep)
            IN  [j \in 1..Len(kept) |-> VectorResult(ix, q, docs, metas, kept[j])] :
            s \in IndexSearch(ix, q, Min(k, ntotal(ix))) }

\* the search counters after a search() call
SearchStatsAfter(ix, query_embedding, stats) ==
    IF ntotal(ix) = 0 THEN stats
    ELSE IF IndexSearchRaises(ix, query_embedding) THEN stats
    ELSE [total_searches |-> stats.total_searches + 1, last_search |-> "now"]

\* the keywords of the list found in the document, in list order
KeywordMatches(document, keywords) ==
    SelectSeq(keywords, LAMBDA kw : Contains(lower(document), lower(kw)))

KeywordSelected(document, keywords, match_all) ==
    IF match_all THEN Len(KeywordMatches(document, keywords)) = Len(keywords)
    ELSE KeywordMatches(document, keywords) # <<>>

MatchScore_AlwaysOne(document, keywords, match_all) == One

MatchScore(document, keywords, match_all) ==
    IF match_all THEN One
    ELSE Div(Len(KeywordMatches(document, keywords)), Len(keywords))

KeywordResult(docs, metas, keywords, match_all, i) ==
    [match_score |-> MatchScore(docs[i + 1], keywords, match_all),
     matched_keywords |-> KeywordMatches(docs[i + 1], keywords),
     document |-> docs[i + 1],
     metadata |-> metas[i + 1],
     vector_id |-> i]

\* the scan of keyword_search: one result per selected passage, in corpus order
KeywordScan(docs, metas, keywords, match_all) ==
    LET n == Min(Len(docs), Len(metas))
        ids == SelectSeq([i \in 1..n |-> i - 1],
                         LAMBDA i : KeywordSelected(docs[i + 1], keywords, match_all))
    IN  [j \in 1..Len(ids) |-> KeywordResult(docs, metas, keywords, match_all, ids[j])]

\* results.sort(key=(match_score, random.random()), reverse=True): any order
\* of the results in which match_score does not increase
RECURSIVE RandomOrders(_, _)
RandomOrders(results, rest) ==
    IF rest = {} THEN {<<>>}
    ELSE LET top == {i \in rest : \A o \in rest :
                        results[i].match_score >= results[o].match_score}
         IN  UNION {{<<results[b]>> \o s : s \in RandomOrders(results, rest \ {b})} :
                    b \in top}

RandomSorted(results) == RandomOrders(results, 1..Len(results))

\* keyword_search(): the lists it can return
KeywordOutcomes(docs, metas, keywords, match_all, k) ==
    { Prefix(s, k) : s \in RandomSorted(KeywordScan(docs, metas, keywords, match_all)) }

\* keyword_search's default k, which hybrid_search leaves in force
KeywordSearchDefaultK == 10

\* vector_weight (tenths) in units
Weight(w) == w * (One \div 10)

\* combined_results[key] = entry: a dict keeps a key's first position
DictPut(combined, entry) ==
    IF \E i \in 1..Len(combined) : combined[i].vector_id = entry.vector_id
    THEN [i \in 1..Len(combined) |->
            IF combined[i].vector_id = entry.vector_id THEN entry ELSE combined[i]]
    ELSE Append(combined, entry)

DictGet(combined, key) ==
    combined[CHOOSE i \in 1..Len(combined) : combined[i].vector_id = key]

\* hybrid_search, first loop: one entry per vector result
RECURSIVE SeedVectorResults(_, _, _)
SeedVectorResults(combined, results, vector_weight) ==
    IF results = <<>> THEN combined
    ELSE LET result == Head(results)
         IN  SeedVectorResults(
                 DictPut(combined,
                         [vector_score |-> Mul(result.similarity, vector_weight),
                          keyword_score |-> 0,
                          document |-> result.document,
                          metadata |-> result.metadata,
                          vector_id |-> result.vector_id,
                          matched_keywords |-> <<>>]),
                 Tail(results), vector_weight)

\* hybrid_search, second loop: keyword results update or create entries
RECURSIVE MergeKeywordResults(_, _, _)
MergeKeywordResults(combined, results, vector_weight) ==
    IF results = <<>> THEN combined
    ELSE LET result == Head(results)
             keyword_score == Mul(result.match_score, One - vector_weight)
             present == \E i \in 1..Len(combined) :
                            combined[i].vector_id = result.vector_id
             entry ==
                 IF present
                 THEN [DictGet(combined, result.vector_id) EXCEPT
                          !.keyword_score = keyword_score,
                          !.matched_keywords = result.matched_keywords]
                 ELSE [vector_score |-> 0,
                       keyword_score |-> keyword_score,
                       document |-> result.document,
                       metadata |-> result.metadata,
                       vector_id |-> result.vector_id,
                       matched_keywords |-> result.matched_keywords]
         IN  MergeKeywordResults(DictPut(combined, entry), Tail(results), vector_weight)

\* result['final_score'] = result['vector_score'] + result['keyword_score']
FinalScore(e) == e.vector_score + e.keyword_score

WithFinalScore(combined) ==
    [i \in 1..Len(combined) |->
        [vector_score |-> combined[i].vector_score,
         keyword_score |-> combined[i].keyword_score,
         document |-> combined[i].document,
         metadata |-> combined[i].metadata,
         vector_id |-> combined[i].vector_id,
         matched_keywords |-> combined[i].matched_keywords,
         final_score |-> FinalScore(combined[i])]]

\* list.sort(key=final_score, reverse=True): stable, equal keys keep their order
InsertByFinalScore(sorted, e) ==
    LET n == Cardinality({i \in 1..Len(sorted) : sorted[i].final_score >= e.final_score})
    IN  SubSeq(sorted, 1, n) \o <<e>> \o SubSeq(sorted, n + 1, Len(sorted))

SortByFinalScore_Unsorted(s) == s

RECURSIVE SortByFinalScore(_)
SortByFinalScore(s) ==
    IF s = <<>> THEN <<>>
    ELSE InsertByFinalScore(SortByFinalScore(SubSeq(s, 1, Len(s) - 1)), s[Len(s)])

Combined_WeightsSwapped(vresults, kresults, vector_weight) ==
    WithFinalScore(
        MergeKeywordResults(SeedVectorResults(<<>>, vresults, One - vector_weight),
                            kresults, One - vector_weight))

\* combined_results.values() with final_score, before the sort
Combined(vresults, kresults, vector_weight) ==
    WithFinalScore(
        MergeKeywordResults(SeedVectorResults(<<>>, vresults, vector_weight),
                            kresults, vector_weight))

\* hybrid_search, from the two result lists to the returned list
Fuse(vresults, kresults, k, vector_weight) ==
    Prefix(SortByFinalScore(Combined(vresults, kresults, vector_weight)), k)

----------------------------------------------------------------------------
(* State machine of the store *)

\* the files of storage_dir under one filename_prefix: no index file and no
\* data file yet
NoFile == [exists |-> FALSE]

EmptyDir == [index_file |-> NoFile, data_file |-> NoFile]

\* faiss.write_index(self.index, index_path)
IndexFile(ix) == [exists |-> TRUE, index |-> ix]

\* pickle.dump of metadatas, documents and search_stats; complete is FALSE for
\* a file that open(data_path, 'wb') created and pickle.dump did not finish
DataFile(metas, docs, stats) ==
    [exists |-> TRUE, complete |-> TRUE, metadatas |-> metas, documents |-> docs,
     search_stats |-> stats]

PartialDataFile == [exists |-> TRUE, complete |-> FALSE]

\* the statement of save_database's try block that raises, if one does
SaveFailures == {"none", "write_index", "open", "dump", "info"}

NoArgs ==
    [query_embedding |-> <<>>, keywords |-> <<>>, match_all |-> FALSE,
     k |-> 0, vector_weight |-> 0, min_similarity |-> 0,
     embeddings |-> <<>>, metadatas |-> <<>>, documents |-> <<>>]

StoreInit ==
    /\ index_type \in IndexTypes
    /\ index = create_index(index_type)
    /\ documents = <<>>
    /\ metadatas = <<>>
    /\ search_stats = [total_searches |-> 0, last_search |-> "None"]
    /\ op = "idle"
    /\ args = NoArgs
    /\ raised = FALSE
    /\ vector_results = <<>>
    /\ keyword_results = <<>>
    /\ final_results = <<>>
    /\ earlier_results = <<>>
    /\ storage_dir = EmptyDir
    /\ file_result = "None"

\* add_documents(embeddings, metadatas, documents)
add_documents ==
    /\ op = "idle"
    /\ \E embeddings \in SeqsOf(EmbPool, 0, MaxBatch) \cup {LargeEmbeddings},
          metas \in SeqsOf(MetaPool, 0, MaxBatch) \cup {LargeMetadatas},
          docs \in SeqsOf(DocTexts, 0, MaxBatch) \cup {LargeDocuments} :
           /\ IF embeddings = LargeEmbeddings \/ metas = LargeMetadatas
                   \/ docs = LargeDocuments
              THEN \* the large corpus goes whole into an empty inner-product store
                   /\ embeddings = LargeEmbeddings /\ metas = LargeMetadatas
                   /\ docs = LargeDocuments
                   /\ documents = <<>> /\ ntotal(index) = 0 /\ index_type = "ip"
              ELSE /\ Len(documents) + Len(docs) <= MaxDocs
                   /\ ntotal(index) + Len(docs) <= MaxDocs
           /\ op' = "add_documents"
           \* the lists of a call that went through stay with the caller
           /\ args' = IF Len(embeddings) # Len(metas) \/ Len(embeddings) # Len(docs)
                      THEN NoArgs
                      ELSE [NoArgs EXCEPT !.embeddings = embeddings, !.metadatas = metas,
                                          !.documents = docs]
           /\ UNCHANGED <<index_type, search_stats, vector_results,
                          keyword_results, final_results, earlier_results, extractVars, serverVars, fileVars>>
           /\ IF Len(embeddings) # Len(metas) \/ Len(embeddings) # Len(docs)
              THEN /\ raised' = TRUE
                   /\ UNCHANGED <<index, documents, metadatas>>
              ELSE LET start_id == Len(metadatas)
                       rows == IF index_type = "cosine"
                               THEN [i \in 1..Len(embeddings) |-> Normalize(embeddings[i])]
                               ELSE embeddings
                   IN  /\ raised' = FALSE
                       /\ index' = [index EXCEPT !.vectors = @ \o rows]
                       /\ metadatas' = metadatas \o
                             [i \in 1..Len(metas) |->
                                 [category |-> metas[i].category,
                                  vector_id |-> start_id + i - 1]]
                       /\ documents' = documents \o docs

\* the caller passes the lists of its last add_documents call once more: the
\* dicts of that batch are stored already, by reference (line 80), and the loop
\* at 76-78 writes the new vector_id into them
add_documents_again ==
    /\ op = "add_documents"
    /\ ~raised
    /\ args.documents # <<>>
    /\ Len(documents) + Len(args.documents) <= MaxDocs
    /\ LET start_id == Len(metadatas)
           batch == Len(args.metadatas)
           rows == IF index_type = "cosine"
                   THEN [i \in 1..batch |-> Normalize(args.embeddings[i])]
                   ELSE args.embeddings
           written == [i \in 1..batch |->
                          [category |-> args.metadatas[i].category,
                           vector_id |-> start_id + i - 1]]
       IN  /\ index' = [index EXCEPT !.vectors = @ \o rows]
           /\ metadatas' = SubSeq(metadatas, 1, start_id - batch) \o written \o written
           /\ documents' = documents \o args.documents
    /\ op' = "add_documents_again"
    /\ UNCHANGED <<index_type, search_stats, args, raised, vector_results,
                   keyword_results, final_results, earlier_results, extractVars, serverVars, fileVars>>

\* search(query_embedding, k, min_similarity)
search ==
    /\ op = "idle"
    /\ \E query_embedding \in QueryPool, k \in 1..MaxK, min_similarity \in MinSimilarities :
           /\ ntotal(index) = 0 \/ search_stats.total_searches < MaxSearches
           /\ \E results \in SearchOutcomes(index_type, index, documents, metadatas,
                                            query_embedding, k, min_similarity) :
                  vector_results' = results
           /\ search_stats' = SearchStatsAfter(index, query_embedding, search_stats)
           /\ op' = "search"
           /\ args' = [NoArgs EXCEPT !.query_embedding = query_embedding, !.k = k,
                                     !.min_similarity = min_similarity]
           /\ UNCHANGED <<index_type, index, documents, metadatas, raised,
                          keyword_results, final_results, earlier_results, extractVars, serverVars, fileVars>>

\* keyword_search(keywords, match_all, k)
keyword_search ==
    /\ op = "idle"
    /\ \E keywords \in KeywordLists, match_all \in BOOLEAN, k \in 1..MaxK :
           \* left out: no keywords with match_all on the large corpus, which selects
           \* every passage with score 1.0 and so returns them in any of their orders
           /\ documents = LargeDocuments => ~(match_all /\ keywords = <<>>)
           \* the five keywords are asked of the large corpus; no passage of the
           \* small pool holds one of them
           /\ keywords = LargeKeywords => documents = LargeDocuments
           /\ \E results \in KeywordOutcomes(documents, metadatas, keywords, match_all, k) :
                  keyword_results' = results
           /\ op' = "keyword_search"
           /\ args' = [NoArgs EXCEPT !.keywords = keywords, !.match_all = match_all, !.k = k]
           /\ UNCHANGED <<storeVars, raised, vector_results, final_results, earlier_results,
                          extractVars, serverVars, fileVars>>

\* the same keyword_search call once more, on the unchanged store
keyword_search_again ==
    /\ op = "keyword_search"
    /\ \E results \in KeywordOutcomes(documents, metadatas, args.keywords,
                                       args.match_all, args.k) :
           keyword_results' = results
    /\ earlier_results' = keyword_results
    /\ op' = "keyword_search_again"
    /\ UNCHANGED <<storeVars, args, raised, vector_results, final_results, extractVars, serverVars, fileVars>>

\* hybrid_search(query_embedding, keywords, k, vector_weight)
hybrid_search ==
    /\ op = "idle"
    /\ \E query_embedding \in QueryPool, keywords \in KeywordLists, k \in 1..MaxK,
          w \in Weights :
           /\ ntotal(index) = 0 \/ search_stats.total_searches < MaxSearches
           \* the five keywords are asked of the large corpus; no passage of the
           \* small pool holds one of them
           /\ keywords = LargeKeywords => documents = LargeDocuments
           /\ \E vresults \in SearchOutcomes(index_type, index, documents, metadatas,
                                             query_embedding, k * 2, 0),
                 kresults \in KeywordOutcomes(documents, metadatas, keywords, FALSE,
                                              KeywordSearchDefaultK) :
                  /\ vector_results' = vresults
                  /\ keyword_results' = kresults
                  /\ final_results' = Fuse(vresults, kresults, k, Weight(w))
           /\ search_stats' = SearchStatsAfter(index, query_embedding, search_stats)
           /\ op' = "hybrid_search"
           /\ args' = [NoArgs EXCEPT !.query_embedding = query_embedding,
                                     !.keywords = keywords, !.k = k,
                                     !.vector_weight = Weight(w)]
           /\ UNCHANGED <<index_type, index, documents, metadatas, raised, earlier_results,
                          extractVars, serverVars, fileVars>>

\* the caller is done with the returned value
return ==
    /\ op # "idle"
    /\ op' = "idle"
    /\ args' = NoArgs
    /\ raised' = FALSE
    /\ vector_results' = <<>>
    /\ keyword_results' = <<>>
    /\ final_results' = <<>>
    /\ earlier_results' = <<>>
    /\ UNCHANGED <<storeVars, extractVars, serverVars, fileVars>>

\* save_database(): writes the index file, then the data file, then the info
\* file; an exception at any of them is caught and False returned, with the
\* files written before it left in place
save_database ==
    /\ op = "idle"
    /\ \E fails \in SaveFailures :
           /\ op' = "save_database"
           /\ storage_dir' =
                 [index_file |-> IF fails = "write_index" THEN storage_dir.index_file
                                 ELSE IndexFile(index),
                  data_file |-> IF fails \in {"write_index", "open"}
                                THEN storage_dir.data_file
                                ELSE IF fails = "dump" THEN PartialDataFile
                                ELSE DataFile(metadatas, documents, search_stats)]
           /\ file_result' = IF fails = "none" THEN "True" ELSE "False"
           /\ UNCHANGED <<storeVars, args, raised, vector_results, keyword_results,
                          final_results, earlier_results, extractVars, serverVars>>

\* load_database(): the index is read and assigned as soon as the index file is
\* found; the data file is looked for after that
load_database ==
    /\ op = "idle"
    /\ op' = "load_database"
    /\ IF ~storage_dir.index_file.exists
       THEN /\ file_result' = "False"
            /\ UNCHANGED <<index, metadatas, documents, search_stats>>
       ELSE /\ index' = storage_dir.index_file.index
            /\ IF storage_dir.data_file.exists /\ storage_dir.data_file.complete
               THEN /\ metadatas' = storage_dir.data_file.metadatas
                    /\ documents' = storage_dir.data_file.documents
                    /\ search_stats' = storage_dir.data_file.search_stats
                    /\ file_result' = "True"
               ELSE /\ file_result' = "False"
                    /\ UNCHANGED <<metadatas, documents, search_stats>>
    /\ UNCHANGED <<index_type, storage_dir, args, raised, vector_results,
                   keyword_results, final_results, earlier_results, extractVars,
                   serverVars>>

----------------------------------------------------------------------------
(* Keyword windowing and coverage scoring (fastapi_server.py) *)

Ellipsis == <<".", ".", ".">>

\* text[:500]
FallbackLength == 500

\* s[a:b] for 0 <= a, b <= len(s)
Slice(s, a, b) == SubSeq(s, a + 1, b)

\* str.rfind(needle, start): the highest such index
Find_Highest(hay, needle, start) ==
    LET hits == {p \in start..(Len(hay) - Len(needle)) :
                    \A j \in 1..Len(needle) : hay[p + j] = needle[j]}
    IN  IF hits = {} THEN -1 ELSE CHOOSE p \in hits : \A o \in hits : p >= o

\* str.find(needle, start): the lowest index >= start at which needle occurs, or -1
Find(hay, needle, start) ==
    LET hits == {p \in start..(Len(hay) - Len(needle)) :
                    \A j \in 1..Len(needle) : hay[p + j] = needle[j]}
    IN  IF hits = {} THEN -1 ELSE CHOOSE p \in hits : \A o \in hits : p <= o

\* the while loop of extract_text_by_characters for one keyword
RECURSIVE ScanKeyword(_, _, _, _)
ScanKeyword(text_lower, keyword, start, positions) ==
    LET pos == Find(text_lower, lower(keyword), start)
    IN  IF pos = -1 THEN positions
        ELSE ScanKeyword(text_lower, keyword, pos + 1,
                         Append(positions, <<pos, pos + Len(keyword)>>))

\* keyword_positions after the for loop
RECURSIVE KeywordPositions(_, _, _)
KeywordPositions(text_lower, keywords, positions) ==
    IF keywords = <<>> THEN positions
    ELSE KeywordPositions(text_lower, Tail(keywords),
                          ScanKeyword(text_lower, Head(keywords), 0, positions))

MinStart(positions) ==
    CHOOSE a \in {positions[i][1] : i \in 1..Len(positions)} :
        \A i \in 1..Len(positions) : a <= positions[i][1]

MaxEnd(positions) ==
    CHOOSE b \in {positions[i][2] : i \in 1..Len(positions)} :
        \A i \in 1..Len(positions) : b >= positions[i][2]

WindowStart_FirstFound(positions, radius) == Max(0, positions[1][1] - radius)

WindowStart(positions, radius) == Max(0, MinStart(positions) - radius)
WindowEnd_OneShort(text, positions, radius) ==
    Min(Len(text), MaxEnd(positions) + radius) - 1

WindowEnd(text, positions, radius) == Min(Len(text), MaxEnd(positions) + radius)

\* keyword_count: the keywords of the list found in the extracted text
KeywordCount(extracted, keywords) ==
    Cardinality({j \in 1..Len(keywords) : Contains(lower(extracted), lower(keywords[j]))})

CharFallback_WithEllipsis(text) ==
    IF Len(text) > FallbackLength
    THEN Prefix(text, FallbackLength) \o Ellipsis
    ELSE text

\* return text[:500]
CharFallback(text) == Prefix(text, FallbackLength)

FinalRadius_NeverWidened(text, keywords, positions, char_radius) == char_radius

\* the radius the window is finally cut with
FinalRadius(text, keywords, positions, char_radius) ==
    LET first == Slice(text, WindowStart(positions, char_radius),
                       WindowEnd(text, positions, char_radius))
    IN  IF KeywordCount(first, keywords) < Len(keywords)
        THEN char_radius * 2
        ELSE char_radius

\* the ellipses around the window [start_pos, end_pos)
Decorate(text, start_pos, end_pos) ==
    (IF start_pos > 0 THEN Ellipsis ELSE <<>>)
        \o Slice(text, start_pos, end_pos)
        \o (IF end_pos < Len(text) THEN Ellipsis ELSE <<>>)

ExtractTextByCharacters(text, keywords, char_radius) ==
    IF text = <<>> \/ keywords = <<>> THEN CharFallback(text)
    ELSE LET positions == KeywordPositions(lower(text), keywords, <<>>)
         IN  IF positions = <<>> THEN CharFallback(text)
             ELSE LET r == FinalRadius(text, keywords, positions, char_radius)
                  IN  Decorate(text, WindowStart(positions, r),
                               WindowEnd(text, positions, r))

\* round(x, 1) of x = 100 * num / den, in tenths; an exact half goes to the even digit
RoundTenths(num, den) ==
    LET q == (1000 * num) \div den
        rem == (1000 * num) % den
    IN  IF 2 * rem > den THEN q + 1
        ELSE IF 2 * rem = den THEN q + (q % 2)
        ELSE q

CalculateKeywordScore(extracted, input_keywords) ==
    IF extracted = <<>> \/ input_keywords = <<>> THEN 0
    ELSE RoundTenths(KeywordCount(extracted, input_keywords), Len(input_keywords))

(* Sentence mode *)

Whitespace == {" ", "nl", "tab"}
IsSpace(c) == c \in Whitespace

\* [da eum ham doem seum myeo]: the syllables a sentence-final period follows
SentenceEnders == {"da", "eum", "ham", "doem", "seum", "myeo"}

\* [ga-hih]: the Hangul syllables of the model's alphabet
Hangul ==
    SentenceEnders \cup
    {"ga", "do", "ro", "ui", "seol", "gye", "sok", "neun", "an", "jeon", "seong",
     "eul", "go", "ryeo", "han", "cha", "pok", "eun", "i", "sang"}

Uppercase == {"A", "B", "C"}

\* [ga-hih A-Z \n]
BoundaryFollowers == Hangul \cup Uppercase \cup {"nl"}

\* str.strip()
Strip(s) ==
    LET solid == {i \in 1..Len(s) : ~IsSpace(s[i])}
    IN  IF solid = {} THEN <<>>
        ELSE SubSeq(s, CHOOSE a \in solid : \A i \in solid : a <= i,
                       CHOOSE b \in solid : \A i \in solid : b >= i)

\* re.sub(r'\s+', ' ', s)
CollapseWhitespace(s) ==
    LET keep == SelectSeq([i \in 1..Len(s) |-> i],
                          LAMBDA i : ~IsSpace(s[i]) \/ i = 1 \/ ~IsSpace(s[i - 1]))
    IN  [j \in 1..Len(keep) |-> IF IsSpace(s[keep[j]]) THEN " " ELSE s[keep[j]]]

\* re.sub(r'\s+', ' ', s.strip())
NormalizeWhitespace(s) == CollapseWhitespace(Strip(s))

\* (?=\s*[ga-hih A-Z \n]) at index p
Lookahead(t, p) ==
    \E m \in p..(Len(t) - 1) :
        /\ \A j \in p..(m - 1) : IsSpace(t[j + 1])
        /\ t[m + 1] \in BoundaryFollowers

\* (?<=[enders])\.(?=...) matches the period at index p
PeriodBoundary(t, p) ==
    /\ p >= 1 /\ p < Len(t)
    /\ t[p + 1] = "."
    /\ t[p] \in SentenceEnders
    /\ Lookahead(t, p + 1)

\* (?<=[!?])(?=...) matches the empty string at index p
MarkBoundary(t, p) ==
    /\ p >= 1
    /\ t[p] \in {"!", "?"}
    /\ Lookahead(t, p)

\* the first index >= p at which sentence_pattern matches, or -1
NextBoundary(t, p) ==
    LET hits == {b \in p..Len(t) : PeriodBoundary(t, b) \/ MarkBoundary(t, b)}
    IN  IF hits = {} THEN -1 ELSE CHOOSE b \in hits : \A o \in hits : b <= o

\* re.split(sentence_pattern, t): the scan from index p, the current piece
\* starting at index start; a period match is consumed, a mark match is empty
RECURSIVE SplitFrom(_, _, _, _)
SplitFrom(t, p, start, pieces) ==
    LET b == NextBoundary(t, p)
    IN  IF b = -1 THEN Append(pieces, Slice(t, start, Len(t)))
        ELSE IF PeriodBoundary(t, b)
             THEN SplitFrom(t, b + 1, b + 1, Append(pieces, Slice(t, start, b)))
        ELSE SplitFrom(t, b + 1, b, Append(pieces, Slice(t, start, b)))

SplitSentences(t) == SplitFrom(t, 0, 0, <<>>)

\* the sentences kept: normalized, longer than 2 characters
ProcessedSentences(sentences) ==
    LET cleaned == [i \in 1..Len(sentences) |-> NormalizeWhitespace(sentences[i])]
    IN  SelectSeq(cleaned, LAMBDA sentence : sentence # <<>> /\ Len(sentence) > 2)

\* the indices (from 0) of the sentences holding a keyword
KeywordSentences(processed, keywords) ==
    {i \in 0..(Len(processed) - 1) :
        \E j \in 1..Len(keywords) :
            Contains(lower(processed[i + 1]), lower(keywords[j]))}

\* cleaned_text[:500] + "..." if len(cleaned_text) > 500 else cleaned_text
SentenceFallback(cleaned) ==
    IF Len(cleaned) > FallbackLength
    THEN Prefix(cleaned, FallbackLength) \o Ellipsis
    ELSE cleaned

ResultIndices_HitsOnly(hits, n, context_sentences) == hits

\* result_indices
ResultIndices(hits, n, context_sentences) ==
    UNION { Max(0, idx - context_sentences)
                .. (Min(n, idx + context_sentences + 1) - 1) : idx \in hits }

RECURSIVE SortedIndices_Descending(_)
SortedIndices_Descending(S) ==
    IF S = {} THEN <<>>
    ELSE LET greatest == CHOOSE a \in S : \A b \in S : a >= b
         IN  <<greatest>> \o SortedIndices_Descending(S \ {greatest})

\* sorted(list(result_indices))
RECURSIVE SortedIndices(_)
SortedIndices(S) ==
    IF S = {} THEN <<>>
    ELSE LET least == CHOOSE a \in S : \A b \in S : a <= b
         IN  <<least>> \o SortedIndices(S \ {least})

\* result_sentences: the chosen sentences with "..." wherever indices skip
RECURSIVE ResultSentences(_, _, _)
ResultSentences(processed, indices, i) ==
    IF i > Len(indices) THEN <<>>
    ELSE (IF i > 1 /\ indices[i] > indices[i - 1] + 1 THEN <<Ellipsis>> ELSE <<>>)
            \o <<processed[indices[i] + 1]>>
            \o ResultSentences(processed, indices, i + 1)

\* " ".join(parts)
RECURSIVE JoinWithSpace(_)
JoinWithSpace(parts) ==
    IF parts = <<>> THEN <<>>
    ELSE IF Len(parts) = 1 THEN parts[1]
    ELSE parts[1] \o <<" ">> \o JoinWithSpace(Tail(parts))

ExtractSentencesWithKeywords(text, keywords, context_sentences) ==
    IF text = <<>> \/ keywords = <<>> THEN text
    ELSE LET cleaned_text == NormalizeWhitespace(text)
             processed == ProcessedSentences(SplitSentences(cleaned_text))
         IN  IF processed = <<>> THEN text
             ELSE LET hits == KeywordSentences(processed, keywords)
                  IN  IF hits = {} THEN SentenceFallback(cleaned_text)
                      ELSE NormalizeWhitespace(JoinWithSpace(
                               ResultSentences(processed,
                                   SortedIndices(ResultIndices(hits, Len(processed),
                                                               context_sentences)),
                                   1)))

----------------------------------------------------------------------------
(* Extraction requests *)

MaxTextLen == 4     \* length of an enumerated text
MaxPieces == 3      \* pieces of an enumerated sentence text
MaxRadius == 1      \* radius of a request
LongLength == 501   \* length of a text beyond the 500-character cap

CharAlphabet == {"a", "A", "b"}
CharTexts == SeqsOf(CharAlphabet, 0, MaxTextLen)

SentencePieces ==
    {<<"ga", "da", ".">>, <<" ">>, <<"A", "a", "!">>, <<"ga", "a", "b">>, <<"nl", "a", ".">>,
     <<"ga", "han", "da", ".">>}

RECURSIVE Concat(_)
Concat(parts) == IF parts = <<>> THEN <<>> ELSE Head(parts) \o Concat(Tail(parts))

SentenceTexts == {Concat(parts) : parts \in SeqsOf(SentencePieces, 0, MaxPieces)}

LongTexts ==
    {[i \in 1..LongLength |-> "b"],
     <<"b", "a">> \o [i \in 1..LongLength |-> "b"],
     [i \in 1..LongLength |-> IF i % 4 = 0 THEN " " ELSE "ro"],
     [i \in 1..LongLength |-> " "],
     [i \in 1..LongLength |-> IF i = 1 THEN "C" ELSE IF i = 2 THEN "!" ELSE " "]}

\* "doroui seolgyesokdoneun anjeonseongeul goryeohanda. charopogeun 3.0m isangida."
RoadText ==
    <<"do", "ro", "ui", " ", "seol", "gye", "sok", "do", "neun", " ",
      "an", "jeon", "seong", "eul", " ", "go", "ryeo", "han", "da", ".", " ",
      "cha", "ro", "pok", "eun", " ", "3", ".", "0", "m", " ",
      "i", "sang", "i", "da", ".">>

DesignSpeed == <<"seol", "gye", "sok", "do">>
LaneWidth == <<"cha", "ro", "pok">>

ExtractionKeywordLists ==
    {<<>>,
     <<<<"a">>>>,
     <<<<"a">>, <<"B">>>>,
     <<<<"a", "a">>>>,
     <<<<"a">>, <<"z">>>>,
     <<<<>>>>,
     <<<<"a", "b">>, <<"z">>, <<"A">>>>,
     <<<<"ga">>>>,
     <<<<"A">>, <<"da">>>>,
     <<<<"a">>, <<".">>>>,
     <<<<"a">>, <<"a">>>>}

\* the keyword lists the sentence texts go with
SentenceKeywordLists ==
    {<<>>,
     <<<<"a">>>>,
     <<<<"a">>, <<"z">>>>,
     <<<<>>>>,
     <<<<"ga">>>>,
     <<<<"A">>, <<"da">>>>,
     <<<<"a">>, <<".">>>>,
     <<<<"a">>, <<"a">>>>}

\* the keyword lists the road text goes with
RoadKeywordLists == {<<>>, <<<<"a">>>>, <<DesignSpeed>>, <<DesignSpeed, LaneWidth>>}

\* the long texts go with the keyword lists that occur in them at most a few times
LongKeywordLists ==
    {<<>>, <<<<"a">>>>, <<<<"a">>, <<"z">>>>, <<<<"ga">>>>, <<DesignSpeed>>}

Requests ==
    [text : CharTexts, keywords : ExtractionKeywordLists, radius : 0..MaxRadius]
    \cup [text : SentenceTexts, keywords : SentenceKeywordLists, radius : 0..MaxRadius]
    \cup [text : {RoadText}, keywords : RoadKeywordLists, radius : 0..MaxRadius]
    \cup [text : LongTexts, keywords : LongKeywordLists, radius : 0..MaxRadius]

NoRequest == [text |-> <<>>, keywords |-> <<>>, radius |-> 0]
NoScore == 0 - 1

\* the locals of extract_text_by_characters before it is called
NoScan ==
    [pc |-> "idle", keyword |-> 0, start |-> 0, keyword_positions |-> <<>>,
     start_pos |-> 0, end_pos |-> 0, widen |-> FALSE, windows |-> 0]

ExtractIdle ==
    /\ request = NoRequest
    /\ ex_op = "idle"
    /\ extracted_text = <<>>
    /\ coverage_score = NoScore
    /\ scan = NoScan

\* extract_text_by_characters(text, keywords, radius)
extract_text_by_characters ==
    /\ ex_op = "request"
    /\ ex_op' = "extract_text_by_characters"
    /\ extracted_text' =
           ExtractTextByCharacters(request.text, request.keywords, request.radius)
    /\ UNCHANGED <<storeVars, callVars, serverVars, fileVars, request, coverage_score, scan>>

\* extract_sentences_with_keywords(text, keywords, radius)
extract_sentences_with_keywords ==
    /\ ex_op = "request"
    /\ ex_op' = "extract_sentences_with_keywords"
    /\ extracted_text' =
           ExtractSentencesWithKeywords(request.text, request.keywords, request.radius)
    /\ UNCHANGED <<storeVars, callVars, serverVars, fileVars, request, coverage_score, scan>>

\* calculate_keyword_score(extracted_text, input_keywords)
calculate_keyword_score ==
    /\ ex_op \in {"extract_text_by_characters", "extract_sentences_with_keywords"}
    /\ coverage_score = NoScore
    /\ coverage_score' = CalculateKeywordScore(extracted_text, request.keywords)
    /\ UNCHANGED <<storeVars, callVars, serverVars, fileVars, request, ex_op, extracted_text, scan>>

----------------------------------------------------------------------------
(* HTTP endpoints and PDF highlighting (fastapi_server.py, pdf_image_renderer.py) *)

MaxMatches == 1     \* rectangles page.search_for returns for one term

DuplicateTolerance == 5
Dpi == 150
PointsPerInch == 72

Abs(x) == IF x < 0 THEN 0 - x ELSE x

\* a fitz.Rect, in layout units
Rect(x0, y0) == [x0 |-> x0, y0 |-> y0, x1 |-> x0 + 10, y1 |-> y0 + 2]

RectPool == {Rect(0, 0), Rect(4, 0), Rect(8, 0), Rect(0, 5), Rect(4, 4)}

AB == <<"a", "b">>
CD == <<"c", "d">>
ABCD == <<"a", "b", " ", "c", "d">>
ABC == <<"a", "b", " ", "c">>

\* the strings a page is searched for
Terms == {AB, CD, ABCD, ABC}

HighlightKeywords == {AB, ABCD, ABC}
RenderKeywordLists == {<<>>, <<AB>>, <<AB, AB>>, <<AB, ABCD>>}

\* str.split(): the maximal runs of non-whitespace characters
RECURSIVE SplitWords(_, _, _)
SplitWords(s, word, words) ==
    IF s = <<>> THEN (IF word = <<>> THEN words ELSE Append(words, word))
    ELSE IF IsSpace(Head(s))
         THEN SplitWords(Tail(s), <<>>,
                         IF word = <<>> THEN words ELSE Append(words, word))
    ELSE SplitWords(Tail(s), Append(word, Head(s)), words)

split(s) == SplitWords(s, <<>>, <<>>)

\* a page: what page.search_for(term) returns for each term
EmptyPage == [t \in Terms |-> <<>>]

PagesFor(T) ==
    {[t \in Terms |-> IF t \in T THEN q[t] ELSE <<>>] :
        q \in [T -> SeqsOf(RectPool, 0, MaxMatches)]}

\* the terms smart_keyword_search searches the page for
SearchedTerms(keyword) ==
    {keyword} \cup
        (IF Len(split(keyword)) > 1
         THEN {w \in Range(split(keyword)) : Len(w) > 1}
         ELSE {})

\* the rectangle object that arrives as number n
Instance(rect, n) ==
    [x0 |-> rect.x0, y0 |-> rect.y0, x1 |-> rect.x1, y1 |-> rect.y1, obj |-> n]

\* the matches of the words longer than one character, word by word
RECURSIVE WordMatches(_, _)
WordMatches(page, words) ==
    IF words = <<>> THEN <<>>
    ELSE (IF Len(Head(words)) > 1 THEN page[Head(words)] ELSE <<>>)
            \o WordMatches(page, Tail(words))

\* all_instances: the exact matches, then the word matches of a compound keyword
AllInstances(page, keyword) ==
    LET exact_matches == page[keyword]
        words == split(keyword)
        found == IF Len(words) > 1
                 THEN exact_matches \o WordMatches(page, words)
                 ELSE exact_matches
    IN  [i \in 1..Len(found) |-> Instance(found[i], i)]

IsDuplicate_Never(inst, existing) == FALSE

IsDuplicate_Inclusive(inst, existing) ==
    /\ Abs(inst.x0 - existing.x0) <= DuplicateTolerance
    /\ Abs(inst.y0 - existing.y0) <= DuplicateTolerance

\* abs(inst.x0 - existing.x0) < 5 and abs(inst.y0 - existing.y0) < 5
IsDuplicate(inst, existing) ==
    /\ Abs(inst.x0 - existing.x0) < DuplicateTolerance
    /\ Abs(inst.y0 - existing.y0) < DuplicateTolerance

\* the loop over all_instances from number i on
RECURSIVE UniqueFrom(_, _, _)
UniqueFrom(instances, i, unique) ==
    IF i > Len(instances) THEN unique
    ELSE IF \E e \in 1..Len(unique) : IsDuplicate(instances[i], unique[e])
         THEN UniqueFrom(instances, i + 1, unique)
    ELSE UniqueFrom(instances, i + 1, Append(unique, instances[i]))

UniqueInstances(instances) == UniqueFrom(instances, 1, <<>>)

\* rect * self.scale_factor, in 1/72 of an image unit
Scaled(v) == v * Dpi

Position(keyword, rect) ==
    [keyword |-> keyword,
     bbox |-> <<Scaled(rect.x0), Scaled(rect.y0), Scaled(rect.x1), Scaled(rect.y1)>>,
     width |-> Scaled(rect.x1) - Scaled(rect.x0),
     height |-> Scaled(rect.y1) - Scaled(rect.y0)]

\* PDFImageRenderer.find_text_positions
RECURSIVE FindTextPositions(_, _)
FindTextPositions(page, keywords) ==
    IF keywords = <<>> THEN <<>>
    ELSE [i \in 1..Len(page[Head(keywords)]) |->
             Position(Head(keywords), page[Head(keywords)][i])]
            \o FindTextPositions(page, Tail(keywords))

\* "vector_db is None or embedding_engine is None"; a name the module never
\* binds raises NameError when it is read
ReadinessCheck ==
    IF vector_db = "unbound" THEN "NameError"
    ELSE IF vector_db = "None" THEN "not ready"
    ELSE IF embedding_engine = "unbound" THEN "NameError"
    ELSE IF embedding_engine = "None" THEN "not ready"
    ELSE "ready"

\* the status the client gets: HTTPException(503); an exception no handler
\* catches is answered with 500
ReadinessStatus ==
    IF ReadinessCheck = "not ready" THEN 503
    ELSE IF ReadinessCheck = "NameError" THEN 500
    ELSE 200

NoResponse == [endpoint |-> "none", status |-> 0]

NoPdfRequest ==
    [keyword |-> <<>>, keywords |-> <<>>, page |-> EmptyPage,
     found |-> FALSE, page_ok |-> FALSE]

\* SearchRequest; keywords <<>> stands for None and for [], which the handler
\* treats alike
NoSearchRequest ==
    [query |-> <<>>, mode |-> "none", max_results |-> 0, vector_weight |-> 0,
     keywords |-> <<>>, document_filter |-> "all", granularity |-> "sentence",
     radius |-> 0, sentence_context |-> 0, full_sentences |-> FALSE]

SearchModes == {"vector", "keyword", "hybrid"}
DocumentFilters == {"all", "manual", "guide"}
Granularities == {"sentence", "char"}

SearchRequests ==
    [query : {<<"a">>, <<"a", " ", "B">>},
     mode : SearchModes,
     max_results : 1..MaxK,
     vector_weight : {Weight(7)},
     keywords : {<<>>, <<<<"c">>>>},
     document_filter : DocumentFilters,
     granularity : Granularities,
     radius : {1},
     sentence_context : {0},
     full_sentences : {FALSE}]

\* input_keywords: request.keywords or request.query.split(), at most five
InputKeywords(req) ==
    LET given == IF req.keywords # <<>> THEN req.keywords ELSE split(req.query)
    IN  IF Len(given) > 5 THEN Prefix(given, 5) ELSE given

\* search_k
SearchK(req) ==
    IF req.mode = "keyword" THEN Max(200, req.max_results * 10)
    ELSE Max(50, req.max_results * 3)

\* results: what the store can answer for the request's mode (query_embedding
\* is what the embedding engine made of the query)
StoreResults(req, query_embedding) ==
    IF req.mode = "vector"
    THEN SearchOutcomes(index_type, index, documents, metadatas, query_embedding,
                        SearchK(req), 0)
    ELSE IF req.mode = "keyword"
    THEN KeywordOutcomes(documents, metadatas, InputKeywords(req), FALSE, SearchK(req))
    ELSE { Fuse(vresults, kresults, SearchK(req), req.vector_weight) :
             vresults \in SearchOutcomes(index_type, index, documents, metadatas,
                                         query_embedding, SearchK(req) * 2, 0),
             kresults \in KeywordOutcomes(documents, metadatas, InputKeywords(req),
                                          FALSE, KeywordSearchDefaultK) }

\* the category filter, then results[:max_results]
FilterResults(results, document_filter) ==
    IF document_filter # "" /\ document_filter # "all"
    THEN LET keep(r) == r.metadata.category = document_filter
         IN  SelectSeq(results, keep)
    ELSE results

FinalResults(results, req) ==
    Prefix(FilterResults(results, req.document_filter), req.max_results)

\* result.get(score_key, 0.0)
ResultScore(result, mode) ==
    IF mode = "hybrid" THEN result.final_score
    ELSE IF mode = "vector" THEN result.similarity
    ELSE result.match_score

\* one pass of the formatting loop: extracted_text and keyword_score of a
\* result; None is written <<>> for the text and NoScore for the score
FormatResult(result, req, i) ==
    LET original_document == result.document
        input_keywords == InputKeywords(req)
        advanced == req.mode \in {"keyword", "hybrid"} /\ input_keywords # <<>>
        window ==
            IF req.granularity = "sentence"
            THEN ExtractSentencesWithKeywords(original_document, input_keywords, req.radius)
            ELSE IF req.granularity = "char"
            THEN ExtractTextByCharacters(original_document, input_keywords, req.radius)
            ELSE <<>>
        changed == window # <<>> /\ window # original_document
        keyword_score ==
            IF ~advanced THEN NoScore
            ELSE IF changed THEN CalculateKeywordScore(window, input_keywords)
            ELSE CalculateKeywordScore(original_document, input_keywords)
        shown ==
            IF ~advanced THEN <<>>
            ELSE IF changed THEN window
            ELSE Prefix(original_document, FallbackLength)
        extracted ==
            IF shown # <<>> THEN shown
            ELSE IF req.mode \in {"keyword", "hybrid"}
                    /\ (req.full_sentences \/ req.sentence_context > 0)
            THEN ExtractSentencesWithKeywords(original_document, input_keywords,
                                              req.sentence_context)
            ELSE Prefix(original_document, FallbackLength)
    IN  [rank |-> i,
         score |-> ResultScore(result, req.mode),
         document |-> extracted,
         metadata |-> result.metadata,
         extracted_text |-> extracted,
         keyword_score |-> keyword_score]

FormattedResults(final, req) ==
    [i \in 1..Len(final) |-> FormatResult(final[i], req, i)]

\* the module as imported: lines 48 and 49 are comments, pdf_renderer = None
ServerIdle ==
    /\ vector_db = "unbound"
    /\ embedding_engine = "unbound"
    /\ pdf_renderer = "None"
    /\ response = NoResponse
    /\ pdf_request = NoPdfRequest
    /\ all_instances = <<>>
    /\ unique_instances = <<>>
    /\ text_positions = <<>>
    /\ search_request = NoSearchRequest
    /\ formatted_results = <<>>

Started == pdf_renderer # "None"

\* startup_event()
startup_event ==
    /\ pdf_renderer = "None"
    /\ pdf_renderer' = "PDFImageRenderer"
    /\ UNCHANGED <<storeVars, callVars, extractVars, fileVars, vector_db, embedding_engine,
                   response, pdf_request, all_instances, unique_instances, text_positions,
                   search_request, formatted_results>>

\* GET /health
health_check ==
    /\ Started /\ response = NoResponse
    /\ response' = [endpoint |-> "health_check", status |-> ReadinessStatus]
    /\ UNCHANGED <<storeVars, callVars, extractVars, fileVars, vector_db, embedding_engine,
                   pdf_renderer, pdf_request, all_instances, unique_instances, text_positions,
                   search_request, formatted_results>>

\* GET /api/stats
get_stats ==
    /\ Started /\ response = NoResponse
    /\ response' = [endpoint |-> "get_stats", status |-> ReadinessStatus]
    /\ UNCHANGED <<storeVars, callVars, extractVars, fileVars, vector_db, embedding_engine,
                   pdf_renderer, pdf_request, all_instances, unique_instances, text_positions,
                   search_request, formatted_results>>

\* POST /api/search: the readiness check comes first, outside the try block;
\* then the store is queried, the results are filtered, cut and formatted
search_endpoint ==
    /\ Started /\ response = NoResponse
    /\ \E req \in SearchRequests :
        /\ search_request' = req
        /\ IF ReadinessCheck # "ready"
           THEN /\ response' = [endpoint |-> "search", status |-> ReadinessStatus]
                /\ formatted_results' = <<>>
                /\ UNCHANGED search_stats
           ELSE \E query_embedding \in QueryPool :
                  \E results \in StoreResults(req, query_embedding) :
                    /\ req.mode = "keyword" \/ ntotal(index) = 0
                          \/ search_stats.total_searches < MaxSearches
                    /\ formatted_results' = FormattedResults(FinalResults(results, req), req)
                    /\ response' = [endpoint |-> "search", status |-> 200]
                    /\ search_stats' = IF req.mode = "keyword" THEN search_stats
                                       ELSE SearchStatsAfter(index, query_embedding,
                                                             search_stats)
    /\ UNCHANGED <<index_type, index, documents, metadatas, callVars, extractVars, fileVars,
                   vector_db, embedding_engine, pdf_renderer, pdf_request,
                   all_instances, unique_instances, text_positions>>

\* GET /api/pdf-highlight/{filename}/{page}/{keyword}
highlight_pdf_page ==
    /\ Started /\ response = NoResponse
    /\ \E keyword \in HighlightKeywords, found \in BOOLEAN, page_ok \in BOOLEAN :
      \E page \in PagesFor(SearchedTerms(keyword)) :
        /\ (found /\ page_ok) \/ page = EmptyPage
        /\ pdf_request' = [keyword |-> keyword, keywords |-> <<>>, page |-> page,
                           found |-> found, page_ok |-> page_ok]
        /\ IF ~found \/ ~page_ok
           THEN /\ response' = [endpoint |-> "highlight_pdf_page", status |-> 404]
                /\ UNCHANGED <<all_instances, unique_instances>>
           ELSE /\ all_instances' = AllInstances(page, keyword)
                /\ unique_instances' = UniqueInstances(AllInstances(page, keyword))
                /\ response' = [endpoint |-> "highlight_pdf_page", status |-> 200]
        /\ UNCHANGED <<storeVars, callVars, extractVars, fileVars, vector_db, embedding_engine,
                       pdf_renderer, text_positions, search_request, formatted_results>>

\* POST /api/render-page, with PDFImageRenderer.render_page_with_highlights
render_pdf_page_with_highlights ==
    /\ Started /\ response = NoResponse
    /\ \E keywords \in RenderKeywordLists, found \in BOOLEAN, page_ok \in BOOLEAN :
      \E page \in PagesFor(Range(keywords)) :
        /\ (found /\ page_ok) \/ page = EmptyPage
        /\ pdf_request' = [keyword |-> <<>>, keywords |-> keywords, page |-> page,
                           found |-> found, page_ok |-> page_ok]
        /\ IF pdf_renderer = "None"
           THEN /\ response' = [endpoint |-> "render_pdf_page_with_highlights",
                                status |-> 503]
                /\ UNCHANGED text_positions
           ELSE IF ~found
           THEN /\ response' = [endpoint |-> "render_pdf_page_with_highlights",
                                status |-> 404]
                /\ UNCHANGED text_positions
           ELSE IF ~page_ok
           THEN /\ response' = [endpoint |-> "render_pdf_page_with_highlights",
                                status |-> 400]
                /\ UNCHANGED text_positions
           ELSE /\ text_positions' = IF keywords # <<>>
                                THEN FindTextPositions(page, keywords)
                                ELSE <<>>
                /\ response' = [endpoint |-> "render_pdf_page_with_highlights",
                                status |-> 200]
        /\ UNCHANGED <<storeVars, callVars, extractVars, fileVars, vector_db, embedding_engine,
                       pdf_renderer, all_instances, unique_instances,
                       search_request, formatted_results>>

\* the response is sent; the request's locals are gone
respond ==
    /\ response # NoResponse
    /\ response' = NoResponse
    /\ pdf_request' = NoPdfRequest
    /\ all_instances' = <<>>
    /\ unique_instances' = <<>>
    /\ text_positions' = <<>>
    /\ search_request' = NoSearchRequest
    /\ formatted_results' = <<>>
    /\ UNCHANGED <<storeVars, callVars, extractVars, fileVars, vector_db, embedding_engine,
                   pdf_renderer>>

----------------------------------------------------------------------------
(* extract_text_by_characters, statement by statement *)

\* the requests the stepwise run is given
ScanAlphabet == {"a", "b"}
ScanTexts == SeqsOf(ScanAlphabet, 0, MaxTextLen)
ScanKeywordLists ==
    {<<>>,
     <<<<"a">>>>,
     <<<<"A">>, <<"b", "a">>>>,
     <<<<"a", "a">>>>,
     <<<<"a", "a">>, <<"z">>>>,
     <<<<>>>>,
     <<<<"a", "b", "a", "b", "a", "b">>>>,
     <<<<"a">>, <<"a">>>>}
ScanRequests == [text : ScanTexts, keywords : ScanKeywordLists, radius : 0..MaxRadius]

\* lines 66-71: the guard, the empty position list, text_lower
scan_entry ==
    /\ scan.pc = "entry"
    /\ IF request.text = <<>> \/ request.keywords = <<>>
       THEN /\ extracted_text' = CharFallback(request.text)
            /\ scan' = [scan EXCEPT !.pc = "done"]
       ELSE /\ scan' = [scan EXCEPT !.pc = "for", !.keyword = 1]
            /\ UNCHANGED extracted_text
    /\ UNCHANGED <<storeVars, callVars, serverVars, fileVars, request, ex_op, coverage_score>>

\* lines 73-75: the next keyword of the for loop, start = 0
scan_for ==
    /\ scan.pc = "for"
    /\ scan' = IF scan.keyword > Len(request.keywords)
               THEN [scan EXCEPT !.pc = "window"]
               ELSE [scan EXCEPT !.pc = "while", !.start = 0]
    /\ UNCHANGED <<storeVars, callVars, serverVars, fileVars, request, ex_op, extracted_text,
                   coverage_score>>

\* lines 76-81: one pass of the while loop
scan_while ==
    /\ scan.pc = "while"
    /\ LET keyword == request.keywords[scan.keyword]
           pos == Find(lower(request.text), lower(keyword), scan.start)
       IN  scan' = IF pos = -1
                   THEN [scan EXCEPT !.pc = "for", !.keyword = @ + 1]
                   ELSE [scan EXCEPT
                           !.keyword_positions = Append(@, <<pos, pos + Len(keyword)>>),
                           !.start = pos + 1]
    /\ UNCHANGED <<storeVars, callVars, serverVars, fileVars, request, ex_op, extracted_text,
                   coverage_score>>

\* lines 83-100: no position, or the window and its keyword count
scan_window ==
    /\ scan.pc = "window"
    /\ IF scan.keyword_positions = <<>>
       THEN /\ extracted_text' = CharFallback(request.text)
            /\ scan' = [scan EXCEPT !.pc = "done"]
       ELSE LET start_pos == WindowStart(scan.keyword_positions, request.radius)
                end_pos == WindowEnd(request.text, scan.keyword_positions, request.radius)
                extracted == Slice(request.text, start_pos, end_pos)
            IN  /\ scan' = [scan EXCEPT
                              !.pc = "widen",
                              !.start_pos = start_pos, !.end_pos = end_pos,
                              !.widen = KeywordCount(extracted, request.keywords)
                                            < Len(request.keywords),
                              !.windows = @ + 1]
                /\ UNCHANGED extracted_text
    /\ UNCHANGED <<storeVars, callVars, serverVars, fileVars, request, ex_op, coverage_score>>

\* lines 100-105: the window again with twice the radius, if keywords are missing
scan_widen ==
    /\ scan.pc = "widen"
    /\ scan' = IF scan.widen
               THEN [scan EXCEPT
                       !.pc = "return",
                       !.start_pos = WindowStart(scan.keyword_positions, request.radius * 2),
                       !.end_pos = WindowEnd(request.text, scan.keyword_positions,
                                             request.radius * 2),
                       !.windows = @ + 1]
               ELSE [scan EXCEPT !.pc = "return"]
    /\ UNCHANGED <<storeVars, callVars, serverVars, fileVars, request, ex_op, extracted_text,
                   coverage_score>>

\* lines 107-113: the ellipses, return
scan_return ==
    /\ scan.pc = "return"
    /\ extracted_text' = Decorate(request.text, scan.start_pos, scan.end_pos)
    /\ scan' = [scan EXCEPT !.pc = "done"]
    /\ UNCHANGED <<storeVars, callVars, serverVars, fileVars, request, ex_op, coverage_score>>

----------------------------------------------------------------------------
(* Specifications *)

Init == StoreInit /\ ExtractIdle /\ ServerIdle

Next ==
    \/ add_documents
    \/ add_documents_again
    \/ search
    \/ keyword_search
    \/ keyword_search_again
    \/ hybrid_search
    \/ return

Spec == Init /\ [][Next]_vars

\* the store with its files: adding, saving and loading
NextPersist ==
    \/ add_documents
    \/ save_database
    \/ load_database
    \/ return

SpecPersist == Init /\ [][NextPersist]_vars

\* the extraction helpers, each request on its own
InitExtract ==
    /\ StoreInit
    /\ index_type = "cosine"
    /\ request \in Requests
    /\ ex_op = "request"
    /\ extracted_text = <<>>
    /\ coverage_score = NoScore
    /\ scan = NoScan
    /\ ServerIdle

NextExtract ==
    \/ extract_text_by_characters
    \/ extract_sentences_with_keywords
    \/ calculate_keyword_score

SpecExtract == InitExtract /\ [][NextExtract]_vars

\* one call of extract_text_by_characters, statement by statement; a call that
\* has begun runs on until it returns
InitScan ==
    /\ StoreInit
    /\ index_type = "cosine"
    /\ request \in ScanRequests
    /\ ex_op = "extract_text_by_characters"
    /\ extracted_text = <<>>
    /\ coverage_score = NoScore
    /\ scan = [NoScan EXCEPT !.pc = "entry"]
    /\ ServerIdle

NextScan ==
    \/ scan_entry
    \/ scan_for
    \/ scan_while
    \/ scan_window
    \/ scan_widen
    \/ scan_return

SpecScan == InitScan /\ [][NextScan]_vars /\ WF_vars(NextScan)

\* the endpoints of the running server
InitServer ==
    /\ StoreInit
    /\ index_type = "cosine"
    /\ ExtractIdle
    /\ ServerIdle

NextServer ==
    \/ startup_event
    \/ health_check
    \/ get_stats
    \/ search_endpoint
    \/ highlight_pdf_page
    \/ render_pdf_page_with_highlights
    \/ respond

SpecServer == InitServer /\ [][NextServer]_vars

----------------------------------------------------------------------------
(* Properties of the store *)

Ids(results) == [i \in 1..Len(results) |-> results[i].vector_id]

InResults(results, id) == \E i \in 1..Len(results) : results[i].vector_id = id

ResultOf(results, id) ==
    results[CHOOSE i \in 1..Len(results) : results[i].vector_id = id]

\* what the fusion rule gives a candidate, from the two result lists
ExpectedVectorScore(id) ==
    IF InResults(vector_results, id)
    THEN (ResultOf(vector_results, id).similarity * args.vector_weight) \div One
    ELSE 0

ExpectedKeywordScore(id) ==
    IF InResults(keyword_results, id)
    THEN (ResultOf(keyword_results, id).match_score * (One - args.vector_weight)) \div One
    ELSE 0

ExpectedFinalScore(id) == ExpectedVectorScore(id) + ExpectedKeywordScore(id)

Candidates == Range(Ids(vector_results)) \cup Range(Ids(keyword_results))

\* C1: every entry hybrid_search returns has final_score = vector_score +
\* keyword_score, 0 <= vector_score <= vector_weight and
\* 0 <= keyword_score <= 1 - vector_weight, whatever the index returns.
C1_ScoreBounds ==
    op = "hybrid_search" =>
        \A i \in 1..Len(final_results) :
            LET e == final_results[i]
            IN  /\ e.final_score = e.vector_score + e.keyword_score
                /\ 0 <= e.vector_score /\ e.vector_score <= args.vector_weight
                /\ 0 <= e.keyword_score /\ e.keyword_score <= One - args.vector_weight

\* C2: the list hybrid_search returns is in non-increasing order of
\* final_score, and it holds the min(k, candidates) candidates of highest score.
C2_SortedTopK ==
    op = "hybrid_search" =>
        LET n == Len(final_results)
            returned == Range(Ids(final_results))
        IN  /\ \A i \in 1..(n - 1) :
                 final_results[i].final_score >= final_results[i + 1].final_score
            /\ n = Min(args.k, Cardinality(Candidates))
            /\ Cardinality(returned) = n
            /\ returned \subseteq Candidates
            /\ \A i \in 1..n :
                 final_results[i].final_score
                     = ExpectedFinalScore(final_results[i].vector_id)
            /\ \A id \in Candidates \ returned : \A i \in 1..n :
                 ExpectedFinalScore(id) <= final_results[i].final_score

C2_Witness ==
    /\ op = "hybrid_search"
    /\ Len(final_results) = 1
    /\ Cardinality(Candidates) = 2
    /\ \E id \in Candidates :
         ExpectedFinalScore(id) < final_results[1].final_score

\* the worked example of the fusion rule: vector [{id 1, 0.9}], keyword
\* [{id 1, 0.5}, {id 2, 1.0}], weight 0.7
ExampleVector ==
    <<[similarity |-> 9 * (One \div 10), document |-> <<"a">>,
       metadata |-> [category |-> "manual", vector_id |-> 1], vector_id |-> 1]>>

ExampleKeyword ==
    <<[match_score |-> One \div 2, matched_keywords |-> <<<<"a">>>>,
       document |-> <<"a">>,
       metadata |-> [category |-> "manual", vector_id |-> 1], vector_id |-> 1],
      [match_score |-> One, matched_keywords |-> <<<<"a">>, <<"B">>>>,
       document |-> <<"A", "b">>,
       metadata |-> [category |-> "manual", vector_id |-> 2], vector_id |-> 2]>>

ExampleFused == Fuse(ExampleVector, ExampleKeyword, 10, Weight(7))

\* C3: in the fused output, an id only in the vector results has
\* keyword_score 0 and no matched keywords; an id only in the keyword results
\* has vector_score 0; an id in both has vector_score = similarity * weight,
\* keyword_score = match_score * (1 - weight) and the keyword result's
\* matched_keywords; the worked example gives 0.78 and 0.3, order [1, 2].
C3_FusedComponents ==
    /\ op = "hybrid_search" =>
        \A i \in 1..Len(final_results) :
            LET e == final_results[i]
                inV == InResults(vector_results, e.vector_id)
                inK == InResults(keyword_results, e.vector_id)
            IN  /\ inV \/ inK
                /\ inV => e.vector_score =
                     (ResultOf(vector_results, e.vector_id).similarity
                         * args.vector_weight) \div One
                /\ ~inV => e.vector_score = 0
                /\ inK => /\ e.keyword_score =
                               (ResultOf(keyword_results, e.vector_id).match_score
                                   * (One - args.vector_weight)) \div One
                          /\ e.matched_keywords =
                               ResultOf(keyword_results, e.vector_id).matched_keywords
                /\ ~inK => e.keyword_score = 0 /\ e.matched_keywords = <<>>
    /\ Ids(ExampleFused) = <<1, 2>>
    /\ ExampleFused[1].final_score = 78 * (One \div 100)
    /\ ExampleFused[2].final_score = 3 * (One \div 10)

\* a fusion with an id in both lists and an id in the keyword list alone
C3_Witness ==
    /\ op = "hybrid_search"
    /\ args.vector_weight = Weight(7)
    /\ Ids(vector_results) = <<0>>
    /\ Ids(keyword_results) = <<1, 0>>
    /\ Ids(final_results) = <<0, 1>>
    /\ final_results[1].final_score = 57 * (One \div 100)
    /\ final_results[2].final_score = 3 * (One \div 10)

\* C4: with vector_weight = 1.0 the ids hybrid_search returns are the ids
\* search returns for the same query embedding and k, in the same order up
\* to ties.
C4_WeightOneIsVectorRanking ==
    (op = "hybrid_search" /\ args.vector_weight = One) =>
        \E r \in SearchOutcomes(index_type, index, documents, metadatas,
                                args.query_embedding, args.k, 0) :
            Ids(final_results) = Ids(r)

\* C5: with vector_weight = 0.0 the ids hybrid_search returns are the ids
\* keyword_search (match_any) returns for the same keywords and k, in the
\* same order up to ties.
C5_WeightZeroIsKeywordRanking ==
    (op = "hybrid_search" /\ args.vector_weight = 0) =>
        \E r \in KeywordOutcomes(documents, metadatas, args.keywords, FALSE, args.k) :
            Ids(final_results) = Ids(r)

\* C6: two runs of keyword_search on the same corpus with the same keywords,
\* policy and k return the same ids in the same order.
C6_KeywordRankingDeterministic ==
    op = "keyword_search_again" => Ids(keyword_results) = Ids(earlier_results)

\* the passages the policy selects
Selected(i) ==
    IF args.match_all
    THEN \A j \in 1..Len(args.keywords) :
             Contains(lower(documents[i + 1]), lower(args.keywords[j]))
    ELSE \E j \in 1..Len(args.keywords) :
             Contains(lower(documents[i + 1]), lower(args.keywords[j]))

PolicyScore(i) ==
    IF args.match_all THEN One
    ELSE (Cardinality({j \in 1..Len(args.keywords) :
              Contains(lower(documents[i + 1]), lower(args.keywords[j]))}) * One)
            \div Len(args.keywords)

\* C7 as stated: a passage is returned iff the policy selects it, with the
\* policy's score.
C7_ReturnedIffSelected ==
    op = "keyword_search" =>
        /\ \A i \in 0..(Len(documents) - 1) :
             InResults(keyword_results, i) <=> Selected(i)
        /\ \A j \in 1..Len(keyword_results) :
             keyword_results[j].match_score = PolicyScore(keyword_results[j].vector_id)

\* C7 as amended: every returned passage is selected by the policy and has the
\* policy's score; the list holds min(k, selected) passages, and no passage
\* left out has a higher score than one returned.
C7_PolicyTopK ==
    op = "keyword_search" =>
        LET sel == {i \in 0..(Len(documents) - 1) : Selected(i)}
            returned == Range(Ids(keyword_results))
        IN  /\ returned \subseteq sel
            /\ Len(keyword_results) = Min(args.k, Cardinality(sel))
            /\ Cardinality(returned) = Len(keyword_results)
            /\ \A j \in 1..Len(keyword_results) :
                 LET r == keyword_results[j]
                 IN  /\ r.match_score = PolicyScore(r.vector_id)
                     /\ r.document = documents[r.vector_id + 1]
            /\ \A i \in sel \ returned : \A j \in 1..Len(keyword_results) :
                 PolicyScore(i) <= keyword_results[j].match_score

\* match_any with a partial match returned and a passage without any keyword
\* left out
C7_Witness ==
    /\ op = "keyword_search"
    /\ ~args.match_all
    /\ Len(documents) = 2
    /\ Len(keyword_results) = 1
    /\ keyword_results[1].match_score = One \div 2
    /\ \E i \in 0..1 : ~Selected(i)

----------------------------------------------------------------------------
(* Properties of the extraction helpers *)

\* keyword kw occurs in text at index p, case-insensitively
OccursAt(text, kw, p) ==
    /\ p >= 0 /\ p + Len(kw) <= Len(text)
    /\ lower(Slice(text, p, p + Len(kw))) = lower(kw)

Occurs(text, kw) == \E p \in 0..Len(text) : OccursAt(text, kw, p)

OccurrenceStarts(text, keywords) ==
    {p \in 0..Len(text) : \E j \in 1..Len(keywords) : OccursAt(text, keywords[j], p)}

OccurrenceEnds(text, keywords) ==
    {e \in 0..Len(text) :
        \E j \in 1..Len(keywords) : OccursAt(text, keywords[j], e - Len(keywords[j]))}

Least(S) == CHOOSE a \in S : \A b \in S : a <= b
Greatest(S) == CHOOSE a \in S : \A b \in S : a >= b

WindowLo(text, keywords, r) == Max(0, Least(OccurrenceStarts(text, keywords)) - r)
WindowHi(text, keywords, r) ==
    Min(Len(text), Greatest(OccurrenceEnds(text, keywords)) + r)

AllCovered(text, keywords, r) ==
    \A j \in 1..Len(keywords) :
        Occurs(Slice(text, WindowLo(text, keywords, r), WindowHi(text, keywords, r)),
               keywords[j])

SomeKeywordOccurs == \E j \in 1..Len(request.keywords) : Occurs(request.text, request.keywords[j])

\* C8: when a keyword occurs in text, character extraction returns
\* text[lo:hi] with lo = max(0, first start - r), hi = min(len, last end + r),
\* r = radius if the window of radius holds every keyword and 2 * radius
\* otherwise, "..." in front iff lo > 0 and behind iff hi < len.
C8_CharWindow ==
    (ex_op = "extract_text_by_characters" /\ SomeKeywordOccurs) =>
        LET text == request.text
            keywords == request.keywords
            r == IF AllCovered(text, keywords, request.radius)
                 THEN request.radius ELSE 2 * request.radius
            lo == WindowLo(text, keywords, r)
            hi == WindowHi(text, keywords, r)
        IN  extracted_text =
                (IF lo > 0 THEN <<".", ".", ".">> ELSE <<>>)
                    \o Slice(text, lo, hi)
                    \o (IF hi < Len(text) THEN <<".", ".", ".">> ELSE <<>>)

\* a widened window that is cut on both sides
C8_Witness ==
    /\ ex_op = "extract_text_by_characters"
    /\ SomeKeywordOccurs
    /\ request.radius = 1
    /\ ~AllCovered(request.text, request.keywords, 1)
    /\ WindowLo(request.text, request.keywords, 2) > 0
    /\ WindowLo(request.text, request.keywords, 2)
           < WindowLo(request.text, request.keywords, 1)
    /\ WindowHi(request.text, request.keywords, 2) < Len(request.text)
    /\ Len(extracted_text) =
           6 + WindowHi(request.text, request.keywords, 2)
             - WindowLo(request.text, request.keywords, 2)

\* C9: when no keyword occurs in text, character extraction returns the
\* first 500 characters of text (all of it if shorter) without ellipsis, and
\* the coverage score of that output is 0.0.
C9_CharFallback ==
    (ex_op = "extract_text_by_characters" /\ ~SomeKeywordOccurs) =>
        /\ extracted_text = SubSeq(request.text, 1, Min(500, Len(request.text)))
        /\ coverage_score # NoScore => coverage_score = 0

\* a text beyond the cap, cut to 500 characters and scored
C9_Witness ==
    /\ ex_op = "extract_text_by_characters"
    /\ request.keywords # <<>>
    /\ ~SomeKeywordOccurs
    /\ Len(request.text) > 500
    /\ Len(extracted_text) = 500
    /\ coverage_score = 0

\* C10: sentence extraction with radius 0 returns the keyword-bearing
\* sentences in full, sentence-final period included, joined by single
\* spaces: for the road text, the design-speed keyword gives the first
\* sentence and both keywords give both sentences, each with coverage 100.0.
C10_RoadTextSentences ==
    (/\ ex_op = "extract_sentences_with_keywords"
     /\ request.text = RoadText
     /\ request.radius = 0) =>
        /\ request.keywords = <<DesignSpeed>> =>
             /\ extracted_text = SubSeq(RoadText, 1, 20)
             /\ coverage_score # NoScore => coverage_score = 1000
        /\ request.keywords = <<DesignSpeed, LaneWidth>> =>
             /\ extracted_text = RoadText
             /\ coverage_score # NoScore => coverage_score = 1000

\* the sentences of a text, as the segmentation keeps them
SentencesOf(text) == ProcessedSentences(SplitSentences(NormalizeWhitespace(text)))

\* the indices of the sentences in which a keyword occurs
BearingIndices(text, keywords) ==
    LET sentences == SentencesOf(text)
    IN  {i \in 0..(Len(sentences) - 1) :
            \E j \in 1..Len(keywords) : Occurs(sentences[i + 1], keywords[j])}

\* the indices within radius of a keyword-bearing index
NearIndices(text, keywords, radius) ==
    LET n == Len(SentencesOf(text))
        bearing == BearingIndices(text, keywords)
    IN  {j \in 0..(n - 1) : \E i \in bearing : j >= i - radius /\ j <= i + radius}

\* the sentences of S from index i on, in index order, joined by single
\* spaces, with "..." before a sentence whose predecessor in S (last) is
\* more than one index behind; last = -1 before the first sentence
RECURSIVE Emitted(_, _, _, _)
Emitted(sentences, S, i, last) ==
    IF i >= Len(sentences) THEN <<>>
    ELSE IF i \notin S THEN Emitted(sentences, S, i + 1, last)
    ELSE (IF last = -1 THEN <<>>
          ELSE IF i - last > 1 THEN <<" ", ".", ".", ".", " ">>
          ELSE <<" ">>)
            \o sentences[i + 1]
            \o Emitted(sentences, S, i + 1, i)

SentenceRequest ==
    /\ ex_op = "extract_sentences_with_keywords"
    /\ request.text # <<>>
    /\ request.keywords # <<>>

\* C11: when a sentence bears a keyword, sentence extraction emits exactly
\* the sentences whose index is within radius of a keyword-bearing index
\* (clamped to the sentence list), in increasing index order, with "..."
\* between two consecutive emitted sentences iff their indices differ by more
\* than 1, and never at the start or the end.
C11_SentenceIndexUnion ==
    (SentenceRequest /\ BearingIndices(request.text, request.keywords) # {}) =>
        LET sentences == SentencesOf(request.text)
            near == NearIndices(request.text, request.keywords, request.radius)
        IN  extracted_text = Emitted(sentences, near, 0, -1)

\* three sentences, the first and the last bearing the keyword, radius 0:
\* the two are emitted with the marker between them
C11_Witness ==
    /\ SentenceRequest
    /\ request.radius = 0
    /\ Len(SentencesOf(request.text)) = 3
    /\ BearingIndices(request.text, request.keywords) = {0, 2}
    /\ extracted_text =
           SentencesOf(request.text)[1] \o <<" ", ".", ".", ".", " ">>
               \o SentencesOf(request.text)[3]

\* the first 500 characters of t, with "..." behind them if t is longer
CutTo500(t) ==
    IF Len(t) > 500 THEN SubSeq(t, 1, 500) \o <<".", ".", ".">> ELSE t

\* no usable sentence, or no sentence with a keyword
SentenceFallbackCase ==
    /\ SentenceRequest
    /\ \/ SentencesOf(request.text) = <<>>
       \/ BearingIndices(request.text, request.keywords) = {}

\* C12: when segmentation yields no usable sentence or no sentence contains
\* a keyword, sentence extraction returns the first 500 characters of the
\* text (as given or whitespace-normalized) followed by "..." if it is longer
\* than 500 characters, and all of it otherwise; never more than 500
\* characters of source text.
C12_SentenceFallback ==
    SentenceFallbackCase =>
        /\ extracted_text \in {CutTo500(request.text),
                               CutTo500(NormalizeWhitespace(request.text))}
        /\ Len(extracted_text) <= 500 + 3

Decorations == {<<>>, <<".", ".", ".">>}

\* out is a contiguous piece of src, with or without "..." before and behind it
IsDecoratedSubstring(out, src) ==
    \E pre \in Decorations, post \in Decorations :
        LET n == Len(out) - Len(pre) - Len(post)
        IN  /\ n >= 0
            /\ \E a \in 0..(Len(src) - n) :
                 out = pre \o Slice(src, a, a + n) \o post

\* the sentences of S in index order joined by single spaces, with "..."
\* before those of M
RECURSIVE RenderChosen(_, _, _, _, _)
RenderChosen(sentences, S, M, i, first) ==
    IF i >= Len(sentences) THEN <<>>
    ELSE IF i \notin S THEN RenderChosen(sentences, S, M, i + 1, first)
    ELSE (IF first THEN <<>>
          ELSE IF i \in M THEN <<" ", ".", ".", ".", " ">>
          ELSE <<" ">>)
            \o sentences[i + 1]
            \o RenderChosen(sentences, S, M, i + 1, FALSE)

\* out, its "..." markers aside, is a selection of the sentences in their order
IsSentenceSubsequence(out, sentences) ==
    \E S \in SUBSET (0..(Len(sentences) - 1)) :
        \E M \in SUBSET S :
            out = RenderChosen(sentences, S, M, 0, TRUE)

CharContained ==
    ex_op = "extract_text_by_characters" =>
        IsDecoratedSubstring(extracted_text, request.text)

\* C13 as stated: the output of character extraction, its added "..." aside,
\* is a contiguous substring of text, and the output of sentence extraction,
\* its "..." markers aside, is an order-preserving subsequence of the
\* sentences of the whitespace-normalized text, for every text, keyword list
\* and radius.
C13_ContainedAlways ==
    /\ CharContained
    /\ ex_op = "extract_sentences_with_keywords" =>
         IsSentenceSubsequence(extracted_text, SentencesOf(request.text))

\* C13 as amended: character extraction as stated; sentence extraction
\* returns an order-preserving selection of the sentences when some sentence
\* holds a keyword, and otherwise a contiguous piece of the text or of the
\* whitespace-normalized text, with or without "..." behind it.
C13_Containment ==
    /\ CharContained
    /\ ex_op = "extract_sentences_with_keywords" =>
         IF SentenceRequest /\ BearingIndices(request.text, request.keywords) # {}
         THEN IsSentenceSubsequence(extracted_text, SentencesOf(request.text))
         ELSE \/ IsDecoratedSubstring(extracted_text, request.text)
              \/ IsDecoratedSubstring(extracted_text, NormalizeWhitespace(request.text))

\* the middle one of three sentences, returned alone
C13_Witness ==
    /\ SentenceRequest
    /\ Len(SentencesOf(request.text)) = 3
    /\ BearingIndices(request.text, request.keywords) = {1}
    /\ request.radius = 0
    /\ extracted_text = SentencesOf(request.text)[2]

\* the score of the window that the helper that ran would cut with radius r
ScoreAtRadius(r) ==
    CalculateKeywordScore(
        IF ex_op = "extract_text_by_characters"
        THEN ExtractTextByCharacters(request.text, request.keywords, r)
        ELSE ExtractSentencesWithKeywords(request.text, request.keywords, r),
        request.keywords)

\* C14: for a fixed text and keyword list, the coverage score of the window
\* extracted with a radius is at least the coverage score of the window
\* extracted with any smaller radius, in character mode and in sentence
\* mode, the score being computed on the full output, "..." included.
C14_CoverageMonotone ==
    coverage_score # NoScore =>
        \A r1 \in 0..request.radius : ScoreAtRadius(r1) <= coverage_score

StartsWithEllipsis(s) == Len(s) >= 3 /\ SubSeq(s, 1, 3) = <<".", ".", ".">>
EndsWithEllipsis(s) == Len(s) >= 3 /\ SubSeq(s, Len(s) - 2, Len(s)) = <<".", ".", ".">>

\* s without the "..." in front of it and behind it (the texts of the model
\* have no "..." of their own)
StripEllipses(s) ==
    LET t == IF StartsWithEllipsis(s) THEN SubSeq(s, 4, Len(s)) ELSE s
    IN  IF EndsWithEllipsis(t) THEN SubSeq(t, 1, Len(t) - 3) ELSE t

\* C15: if the output of character extraction, its added ellipses stripped,
\* contains every keyword, then character extraction of that stripped output
\* with the same keywords and radius gives, ellipses stripped, the same text.
C15_CharIdempotent ==
    ex_op = "extract_text_by_characters" =>
        LET out == StripEllipses(extracted_text)
        IN  (\A j \in 1..Len(request.keywords) : Occurs(out, request.keywords[j])) =>
                StripEllipses(ExtractTextByCharacters(out, request.keywords,
                                                      request.radius)) = out

\* a window cut on both sides that holds both keywords, extracted again
C15_Witness ==
    /\ ex_op = "extract_text_by_characters"
    /\ Len(request.keywords) = 2
    /\ request.radius = 1
    /\ StartsWithEllipsis(extracted_text)
    /\ EndsWithEllipsis(extracted_text)
    /\ \A j \in 1..2 : Occurs(StripEllipses(extracted_text), request.keywords[j])
    /\ Len(StripEllipses(extracted_text)) < Len(request.text)
    /\ ExtractTextByCharacters(StripEllipses(extracted_text), request.keywords,
                               request.radius) = StripEllipses(extracted_text)

\* the distinct keywords of the list that occur in the window
DistinctFound(window, keywords) == {kw \in Range(keywords) : Occurs(window, kw)}

\* C16: calculate_keyword_score returns 100 * (number of distinct input
\* keywords that occur case-insensitively in the window) / len(keywords),
\* rounded to one decimal and within [0.0, 100.0], and 0.0 when the window or
\* the keyword list is empty; a keyword repeated in the list counts once.
C16_DistinctKeywordScore ==
    coverage_score # NoScore =>
        /\ coverage_score >= 0 /\ coverage_score <= 1000
        /\ coverage_score =
             IF extracted_text = <<>> \/ request.keywords = <<>> THEN 0
             ELSE RoundTenths(Cardinality(DistinctFound(extracted_text, request.keywords)),
                              Len(request.keywords))

\* C19: with an empty keyword list, character extraction and sentence
\* extraction both return the text cut to its first 500 characters (with or
\* without "..." behind a cut), for every text, the empty one included.
C19_EmptyKeywordsTruncate ==
    (/\ ex_op \in {"extract_text_by_characters", "extract_sentences_with_keywords"}
     /\ request.keywords = <<>>) =>
        extracted_text \in {SubSeq(request.text, 1, Min(500, Len(request.text))),
                            CutTo500(request.text)}

----------------------------------------------------------------------------
(* Properties of the endpoints and of the highlighting *)

\* the top-left corners of a and b differ by at most 4 units in x and in y
Within4(a, b) == Abs(a.x0 - b.x0) <= 4 /\ Abs(a.y0 - b.y0) <= 4

\* the occurrence that arrived as number n is in the deduplicated output
Kept(n) == \E e \in 1..Len(unique_instances) : unique_instances[e].obj = n

Highlighted == response = [endpoint |-> "highlight_pdf_page", status |-> 200]

\* C17 as stated: for every two occurrences of the input whose top-left
\* corners differ by at most 4 units in x and in y, the deduplicated output
\* contains exactly one of the two, the one that arrived earlier.
C17_EarlierOfEveryPair ==
    Highlighted =>
        \A i, j \in 1..Len(all_instances) :
            (i < j /\ Within4(all_instances[i], all_instances[j])) =>
                Kept(i) /\ ~Kept(j)

\* C17 as amended: the output never contains both of two such occurrences
\* (the later one is discarded whenever the earlier one is kept), the first
\* occurrence of the input is always kept, and an input of exactly two such
\* occurrences yields the earlier one alone.
C17_NeverBothOfAPair ==
    Highlighted =>
        /\ \A i, j \in 1..Len(all_instances) :
             (i < j /\ Within4(all_instances[i], all_instances[j])) =>
                 ~(Kept(i) /\ Kept(j))
        /\ all_instances # <<>> => Kept(1)
        /\ (Len(all_instances) = 2 /\ Within4(all_instances[1], all_instances[2])) =>
             unique_instances = <<all_instances[1]>>

\* three occurrences in a row, 4 units apart: the second is discarded as a
\* duplicate of the first, the third is kept
C17_Witness ==
    /\ Highlighted
    /\ Len(all_instances) = 3
    /\ Within4(all_instances[1], all_instances[2])
    /\ Within4(all_instances[2], all_instances[3])
    /\ ~Within4(all_instances[1], all_instances[3])
    /\ unique_instances = <<all_instances[1], all_instances[3]>>

\* two positions whose top-left corners are within the tolerance in both
\* axes; a bbox coordinate is in 1/72 of an image unit
PositionsCollide(p, q) ==
    /\ Abs(p.bbox[1] - q.bbox[1]) < DuplicateTolerance * PointsPerInch
    /\ Abs(p.bbox[2] - q.bbox[2]) < DuplicateTolerance * PointsPerInch

\* C18: the positions render_page_with_highlights hands to
\* highlight_keywords never contain two occurrences whose top-left corners
\* are within the tolerance in both axes.
C18_RenderPathDeduplicated ==
    (/\ response = [endpoint |-> "render_pdf_page_with_highlights", status |-> 200]
     /\ text_positions # <<>>) =>
        \A i, j \in 1..Len(text_positions) :
            i < j => ~PositionsCollide(text_positions[i], text_positions[j])

NotInitialized(g) == g \in {"unbound", "None"}

\* C20: whenever the corpus store or the embedding provider has not been
\* initialized, the search, stats and health operations answer with 503
\* (service not ready), in particular after the startup routine has run.
C20_UnreadyIs503 ==
    (/\ response.endpoint \in {"search", "get_stats", "health_check"}
     /\ NotInitialized(vector_db) \/ NotInitialized(embedding_engine)) =>
        response.status = 503

----------------------------------------------------------------------------
(* C21 *)

\* the call in progress queried a non-empty index with an embedding of another
\* width than the index
DimensionMismatch ==
    /\ op \in {"search", "hybrid_search"}
    /\ ntotal(index) > 0
    /\ Len(args.query_embedding) # dimension

\* C21: when the query embedding's dimension differs from the index dimension,
\* search and hybrid_search fail explicitly to their caller; they do not
\* return a list (empty, or holding the keyword matches only) as if nothing
\* had matched.
C21_DimensionMismatchRaises == DimensionMismatch => raised

----------------------------------------------------------------------------
(* C22, C23 *)

\* the passage a formatted result was made from
PassageOf(f) == documents[f.metadata.vector_id + 1]

\* the stored passages of the filter's category that match the request's keywords
FilteredMatches ==
    {j \in 1..Len(documents) :
        /\ metadatas[j].category = search_request.document_filter
        /\ KeywordMatches(documents[j], InputKeywords(search_request)) # <<>>}

\* C22: the document filter is applied to the ranked candidates before the cut
\* to max_results: a search with a filter is answered with results that all
\* carry the filter's category, in ranked order, and (keyword mode) with
\* min(max_results, number of matching passages of that category) of them.
C22_FilterBeforeTruncation ==
    (response.endpoint = "search" /\ search_request.document_filter # "all") =>
        /\ response.status = 200
        /\ \A i \in 1..Len(formatted_results) :
             /\ formatted_results[i].metadata.category = search_request.document_filter
             /\ formatted_results[i].rank = i
        /\ \A i, j \in 1..Len(formatted_results) :
             i < j => formatted_results[i].score >= formatted_results[j].score
        /\ Len(formatted_results) <= search_request.max_results
        /\ search_request.mode = "keyword" =>
             Len(formatted_results) =
                 Min(search_request.max_results, Cardinality(FilteredMatches))

\* the window the request's granularity cuts from a passage
RequestedWindow(d) ==
    IF search_request.granularity = "sentence"
    THEN ExtractSentencesWithKeywords(d, InputKeywords(search_request),
                                      search_request.radius)
    ELSE ExtractTextByCharacters(d, InputKeywords(search_request),
                                 search_request.radius)

\* C23: a keyword or hybrid search with a non-empty keyword list reports, for
\* each result, the coverage score of the extracted window when extraction gave
\* a non-empty text other than the passage, and otherwise the coverage score
\* of the whole passage with its first 500 characters as the displayed text.
C23_KeywordScoreOfWindow ==
    (/\ response.endpoint = "search"
     /\ search_request.mode \in {"keyword", "hybrid"}
     /\ InputKeywords(search_request) # <<>>) =>
        /\ response.status = 200
        /\ \A i \in 1..Len(formatted_results) :
             LET f == formatted_results[i]
                 d == PassageOf(f)
                 w == RequestedWindow(d)
             IN  IF w # <<>> /\ w # d
                 THEN /\ f.keyword_score =
                            CalculateKeywordScore(w, InputKeywords(search_request))
                      /\ f.extracted_text = w
                 ELSE /\ f.keyword_score =
                            CalculateKeywordScore(d, InputKeywords(search_request))
                      /\ f.extracted_text = Prefix(d, FallbackLength)

----------------------------------------------------------------------------
(* C24 *)

\* the results the call in progress returned
ReturnedResults ==
    Range(vector_results) \cup Range(keyword_results) \cup Range(final_results)

\* C24: the passage stored at position i carries vector_id i, so the ids
\* increase with the insertion order and none is used twice, and every result
\* of search, keyword_search and hybrid_search reports the vector_id of the
\* passage whose document and metadata it carries.
C24_VectorIdIsPosition ==
    /\ \A i \in 1..Len(metadatas) : metadatas[i].vector_id = i - 1
    /\ \A r \in ReturnedResults :
         /\ r.vector_id \in 0..(Len(documents) - 1)
         /\ r.document = documents[r.vector_id + 1]
         /\ r.metadata = metadatas[r.vector_id + 1]
         /\ r.metadata.vector_id = r.vector_id

----------------------------------------------------------------------------
(* C25 *)

QueryOps == {"search", "keyword_search", "keyword_search_again", "hybrid_search"}

\* a step that is a call of search, keyword_search or hybrid_search
QueryStep == op' \in QueryOps /\ op' # op

\* C25: search, keyword_search and hybrid_search leave every shared field of
\* the store as it was: the documents, the metadatas, the index and the
\* search counters.
C25_QueriesArePure ==
    [][QueryStep => UNCHANGED <<index, documents, metadatas, search_stats>>]_vars

----------------------------------------------------------------------------
(* C26 *)

\* every place of the text at which a keyword of the list occurs, with its end
Occurrences(text, keywords) ==
    UNION {{<<p, p + Len(keywords[j])>> : p \in {q \in 0..Len(text) :
                                                 OccursAt(text, keywords[j], q)}} :
           j \in 1..Len(keywords)}

\* the occurrence scan is over
Scanned == scan.pc \in {"window", "widen", "return"}

\* the scan recorded every occurrence, overlapping ones included, and nothing else
ScanComplete ==
    Range(scan.keyword_positions) = Occurrences(request.text, request.keywords)

\* C26: character extraction terminates for every text, keyword list (the
\* empty keyword, keywords longer than the text and self-overlapping keywords
\* included) and radius: the call returns, the scan has then recorded every
\* occurrence, and the window was computed at most twice.
C26_ExtractionTerminates ==
    /\ [](Scanned => ScanComplete)
    /\ [](scan.windows <= 2)
    /\ [](scan.pc = "done" =>
            extracted_text = ExtractTextByCharacters(request.text, request.keywords,
                                                     request.radius))
    /\ <>(scan.pc = "done")

\* a returned call that recorded the three overlapping occurrences of "aa" in
\* "aaaa" and, "z" being absent, computed the window twice
C26_Witness ==
    /\ scan.pc = "done"
    /\ request.text = <<"a", "a", "a", "a">>
    /\ request.keywords = <<<<"a", "a">>, <<"z">>>>
    /\ scan.keyword_positions = <<<<0, 2>>, <<1, 3>>, <<2, 4>>>>
    /\ scan.windows = 2

----------------------------------------------------------------------------
(* C27 *)

\* C27: every entry hybrid_search returns whose passage holds at least one of
\* the keywords has keyword_score = matched / total * (1 - vector_weight) and a
\* non-empty matched_keywords, however many passages of the corpus match the
\* keywords and whatever k is.
C27_MatchingEntriesScored ==
    op = "hybrid_search" =>
        \A i \in 1..Len(final_results) :
            LET e == final_results[i]
                matched == KeywordMatches(e.document, args.keywords)
            IN  matched # <<>> =>
                  /\ e.keyword_score =
                         Mul(Div(Len(matched), Len(args.keywords)),
                             One - args.vector_weight)
                  /\ e.matched_keywords = matched

----------------------------------------------------------------------------
(* C28: consistency of the store under add_documents and load_database *)

\* the index holds as many vectors as there are documents and metadatas
StoreConsistent ==
    /\ ntotal(index) = Len(documents)
    /\ Len(documents) = Len(metadatas)

\* a call of add_documents that raised, or of load_database that returned False
FailedCall ==
    /\ op = "idle"
    /\ \/ op' = "add_documents" /\ raised'
       \/ op' = "load_database" /\ file_result' = "False"

\* C28: after any sequence of add_documents and load_database calls, failed
\* ones included, the index holds exactly len(documents) = len(metadatas)
\* vectors, and a failed call leaves index, documents and metadatas as they
\* were before it.
C28_StoreConsistency ==
    /\ []StoreConsistent
    /\ [][FailedCall => UNCHANGED <<index, documents, metadatas>>]_vars

----------------------------------------------------------------------------
(* C29: the deduplicated highlight set of smart_keyword_search *)

\* the matches of the tokens from number i on, each token longer than one
\* character searched on its own
RECURSIVE TokenArrivals(_, _, _)
TokenArrivals(page, tokens, i) ==
    IF i > Len(tokens) THEN <<>>
    ELSE (IF Len(tokens[i]) > 1 THEN page[tokens[i]] ELSE <<>>)
            \o TokenArrivals(page, tokens, i + 1)

\* the arrival sequence of a request: the exact-phrase matches, then, for a
\* keyword of more than one token, the per-token matches
Arrivals(req) ==
    req.page[req.keyword] \o
        (IF Len(split(req.keyword)) > 1
         THEN TokenArrivals(req.page, split(req.keyword), 1)
         ELSE <<>>)

\* both deltas of the top-left corners are below 5
Near(a, b) == Abs(a.x0 - b.x0) < 5 /\ Abs(a.y0 - b.y0) < 5

\* the arrival numbers of the accepted occurrences, in output order
Accepted == [e \in 1..Len(unique_instances) |-> unique_instances[e].obj]

\* C29: the output of smart_keyword_search is a subsequence of the arrival
\* sequence (exact-phrase matches, then the matches of the tokens longer than
\* one character of a keyword of more than one token); no two accepted
\* occurrences have both deltas below 5; the first arrival is accepted; every
\* discarded occurrence has an earlier accepted one with both deltas below 5.
C29_DeduplicatedHighlightSet ==
    Highlighted =>
        /\ Len(all_instances) = Len(Arrivals(pdf_request))
        /\ \A n \in 1..Len(all_instances) :
             all_instances[n] = Instance(Arrivals(pdf_request)[n], n)
        /\ \A e \in 1..Len(unique_instances) :
             /\ Accepted[e] \in 1..Len(all_instances)
             /\ unique_instances[e] = all_instances[Accepted[e]]
             /\ e > 1 => Accepted[e - 1] < Accepted[e]
        /\ \A d, e \in 1..Len(unique_instances) :
             d # e => ~Near(unique_instances[d], unique_instances[e])
        /\ all_instances # <<>> =>
             unique_instances # <<>> /\ unique_instances[1] = all_instances[1]
        /\ \A n \in 1..Len(all_instances) :
             ~Kept(n) =>
                 \E m \in 1..(n - 1) : Kept(m) /\ Near(all_instances[n], all_instances[m])

\* the phrase at (0, 0), its first token 5 units lower and its second token at
\* (4, 4): the second arrival is kept, its vertical delta being exactly 5, and
\* the third is discarded as a duplicate of the first
C29_Witness ==
    /\ Highlighted
    /\ pdf_request.keyword = ABCD
    /\ Len(all_instances) = 3
    /\ all_instances[1].y0 = 0 /\ all_instances[1].x0 = 0
    /\ all_instances[2].x0 = 0 /\ all_instances[2].y0 = 5
    /\ all_instances[3].x0 = 4 /\ all_instances[3].y0 = 4
    /\ unique_instances = <<all_instances[1], all_instances[2]>>

----------------------------------------------------------------------------
(* C30: the character window holds every occurrence *)

\* the keywords of the list, by number, that occur in a text
CoveredBy(text, keywords) == {j \in 1..Len(keywords) : Occurs(text, keywords[j])}

\* the window the call has computed last, before ellipses are added
ScanWindow == Slice(request.text, scan.start_pos, scan.end_pos)

\* a window has been computed: the first one (the widening branch is next), or
\* the one that is returned
FirstWindow == scan.pc = "widen"
ReturnedWindow == scan.pc \in {"return", "done"} /\ scan.windows > 0

SomeKeywordAbsent ==
    \E j \in 1..Len(request.keywords) : ~Occurs(request.text, request.keywords[j])

\* C30: whenever a keyword occurs in the text, the window of character
\* extraction, the first one and the returned one, holds every occurrence of
\* every keyword, so it covers the keywords the full text covers; the
\* radius-doubling branch is taken exactly when some keyword does not occur in
\* the text at all, and the widened window covers no keyword more.
C30_WindowHoldsEveryOccurrence ==
    (FirstWindow \/ ReturnedWindow) =>
        /\ SomeKeywordOccurs
        /\ \A o \in Occurrences(request.text, request.keywords) :
             scan.start_pos <= o[1] /\ o[2] <= scan.end_pos
        /\ CoveredBy(ScanWindow, request.keywords)
             = CoveredBy(request.text, request.keywords)
        /\ FirstWindow => (scan.widen <=> SomeKeywordAbsent)
        /\ ReturnedWindow => (scan.windows = 2 <=> SomeKeywordAbsent)

\* "aabb" with the keywords "A" and "ba" and radius 1: "ba" is absent, the
\* window "aab" is widened to the whole text and still covers "A" alone
C30_Witness ==
    /\ scan.pc = "done"
    /\ request.text = <<"a", "a", "b", "b">>
    /\ request.keywords = <<<<"A">>, <<"b", "a">>>>
    /\ request.radius = 1
    /\ scan.windows = 2
    /\ scan.start_pos = 0 /\ scan.end_pos = 4
    /\ CoveredBy(ScanWindow, request.keywords) = {1}

====
